---- MODULE Spec2Model ----
(***************************************************************************)
(* Sector-scoped realtime synchronisation of the clinic portal: the remote *)
(* store (rooms, room_allocations, profiles), the change notification      *)
(* channel, and the client views (DailyMap, Dashboard, Users,              *)
(* Professionals) with their asynchronous fetch / write handlers.          *)
(*                                                                         *)
(* Every remote call is a request record in `net`: it is issued by a       *)
(* handler ("sent"), processed by the store in one atomic step (a read     *)
(* takes its snapshot, a write commits) and later handed back to the       *)
(* continuation of the handler that awaits it.  Responses of independent   *)
(* requests reach the client in any order.                                 *)
(***************************************************************************)
EXTENDS Integers, Sequences, FiniteSets, Bags, TLC

\* ------------------------------------------------------------ bounds ----
\* user operations (clicks, date and sector changes) and request failures in a run
MaxOps == 3
\* remote calls in flight at once
MaxInFlight == 3

\* ---------------------------------------------------------- universe ----
Clients == {"c1", "c2"}
RoomIds == {1, 2}
Days == {1, 2}
Shifts == {"morning", "afternoon"}
DoctorIds == {"D1", "D2"}

\* two of the enumerated sector labels
FLOOR_OPTIONS == {"9 Andar ( OFTALMOLOGIA )", "CDU - CENTRO DE DIAGNOSTICO UNIMED"}
DefaultFloor == "9 Andar ( OFTALMOLOGIA )"

\* the labels the sector selector of the layout offers, and so the arguments
\* setSelectedFloor is called with
SectorSelector == FLOOR_OPTIONS

NoFloor == "-"
NoShift == "-"
NoDoctor == "-"
NoPage == "none"
NoUser == "-"
NoSlot == [roomId |-> 0, shift |-> NoShift]

\* localStorage.getItem of a key never set
NoStored == "null"

\* the delimiter of the composite "specialty | sector" field, as one token, and a
\* blank
Pipe == " | "
Space == " "

VARIABLES
    tblRooms,            \* store: rooms(id, name, sector, order)
    tblAllocations,      \* store: room_allocations(room_id, doctor_id, date, shift, created_by)
    tblProfiles,         \* store: profiles(id, name, role, specialty, is_admin, status)
    nextRoomId,          \* the id the store gives the next inserted room
    net,                 \* remote calls in flight
    notif,               \* per client: the watched tables with an undelivered change event
    page,                \* per client: the page the router has mounted
    selectedFloor,       \* per client: AuthContext.selectedFloor
    currentDate,         \* per client: DailyMap.currentDate
    rooms,               \* per client: DailyMap.rooms
    allocations,         \* per client: DailyMap.allocations
    doctors,             \* per client: DailyMap.doctors
    activeTab,           \* per client: DailyMap.activeTab
    selectedSlot,        \* per client: DailyMap.selectedSlot
    showAllocationModal, \* per client: DailyMap.showAllocationModal
    editingRoomId,       \* per client: DailyMap.editingRoomId (0: none)
    shown,               \* per client: the alerts / toasts shown so far
    user,                \* per client: AuthContext.user (the authenticated identity)
    session,             \* per client: AuthContext.session is present
    dashRooms,           \* per client: Dashboard.rooms
    dashAllocations,     \* per client: Dashboard.allocations
    users,               \* per client: Users.users
    isModalOpen,         \* per client: isModalOpen of the open page (Users, Professionals)
    editingUser,         \* per client: Users.editingUser / Professionals.editingProfessional
                         \*             (the id; NoUser: none)
    formData,            \* per client: formData of the open page (Users, Professionals)
    professionals,       \* per client: Professionals.professionals
    channels,            \* per client: the bag of realtime channels its supabase client
                         \*             holds subscribed
    storedFloor,         \* per client: localStorage['mediportal_selected_floor']
    reloaded,            \* history: per client, the sector in memory was read from the
                         \*          storage by a reload
    ops,                 \* user operations performed so far
    lastAssign,          \* history: per slot key, the doctor of the last committed assign
    roomsSel,            \* history: per client, the sector selected when the fetch that
                         \*          produced `rooms` was issued
    roomsFresh,          \* history: per client, a rooms fetch issued for the selected
                         \*          sector has been applied since the last sector switch
    failed,              \* history: some fetch has failed
    lastWrite,           \* history: per slot key, the last committed write (who, which doctor)
    done                 \* history: per client, the last assign / clear that completed

vars == <<tblRooms, tblAllocations, tblProfiles, nextRoomId, net, notif, page,
          selectedFloor, currentDate, rooms, allocations, doctors, activeTab,
          selectedSlot, showAllocationModal, editingRoomId, shown, user, session, ops,
          lastAssign, roomsSel, roomsFresh, failed, lastWrite, done,
          dashRooms, dashAllocations, users, isModalOpen, editingUser, formData,
          professionals, channels, storedFloor, reloaded>>

\* the selected sector, in memory and persisted
floorVars == <<selectedFloor, storedFloor, reloaded>>

\* the state of the pages other than DailyMap
pageData == <<dashRooms, dashAllocations, users, isModalOpen, editingUser, formData,
              professionals>>
\* ... and the subscriptions
pageVars == <<pageData, channels>>

\* ------------------------------------------------------ pure helpers ----

\* the calendar days in view, as the keys formatDateKey renders them
DateKeys == <<"2024-01-10", "2024-01-11">>
formatDateKey(d) == DateKeys[d]

SlotKeys == RoomIds \X {DateKeys[d] : d \in Days} \X Shifts
KeyOf(a) == <<a.room_id, a.date, a.shift>>

\* .order('order', { ascending: true }); rows of equal order in insertion (id) order
RECURSIVE SortRooms(_)
SortRooms(S) ==
    IF S = {} THEN <<>>
    ELSE LET m == CHOOSE x \in S : \A y \in S :
                      x.order < y.order \/ (x.order = y.order /\ x.id <= y.id)
         IN <<m>> \o SortRooms(S \ {m})

Range(s) == {s[i] : i \in 1..Len(s)}
RoomIdsOf(rs) == {r.id : r \in Range(rs)}

\* String.split(' | ') on a token string: the segments between the delimiter tokens
RECURSIVE SplitPipe(_)
SplitPipe(s) ==
    IF \A i \in 1..Len(s) : s[i] # Pipe THEN <<s>>
    ELSE LET k == CHOOSE i \in 1..Len(s) :
                      s[i] = Pipe /\ \A j \in 1..(i - 1) : s[j] # Pipe
         IN <<SubSeq(s, 1, k - 1)>> \o SplitPipe(SubSeq(s, k + 1, Len(s)))

\* String.trim(): the blanks at both ends go
RECURSIVE Trim(_)
Trim(s) ==
    IF s = <<>> THEN s
    ELSE IF Head(s) = Space THEN Trim(Tail(s))
    ELSE IF s[Len(s)] = Space THEN Trim(SubSeq(s, 1, Len(s) - 1))
    ELSE s

\* parts[i] || dflt  (an absent or empty segment is falsy)
PartOr(parts, i, dflt) == IF Len(parts) >= i /\ parts[i] # <<>> THEN parts[i] ELSE dflt

\* DailyMap.fetchDoctors: profile row -> Doctor
MapDoctor(p) ==
    LET specialtyParts == SplitPipe(p.specialty)
    IN [id |-> p.id,
        specialty |-> Trim(PartOr(specialtyParts, 1, <<"Medico">>)),
        status |-> IF p.status = "" THEN "active" ELSE p.status,
        isAdmin |-> p.is_admin,
        sector |-> Trim(PartOr(specialtyParts, 2, <<>>))]

\* Tasks.fetchDoctors: profile row -> Doctor
MapTaskDoctor(p) ==
    LET parts == SplitPipe(p.specialty)
    IN [id |-> p.id,
        specialty |-> Trim(PartOr(parts, 1, <<"Geral">>)),
        sector |-> Trim(PartOr(parts, 2, <<>>)),
        status |-> IF p.status = "" THEN "active" ELSE p.status]

\* ------------------------------------------------- store operations ----

\* a bug: the query has no .order(..), and the rows come as the store keeps them (here
\* the newest first)
SelectRoomsUnordered(tbl, floor) ==
    LET S == {r \in tbl : r.sector = floor} IN
    CHOOSE q \in [1..Cardinality(S) -> S] :
        \A i, j \in 1..Cardinality(S) : i < j => q[i].id > q[j].id

\* from('rooms').select('*').eq('sector', floor).order('order')
SelectRooms(tbl, floor) == SortRooms({r \in tbl : r.sector = floor})

\* from('room_allocations').select('*').eq('date', dateKey).in('room_id', roomIds)
SelectAllocations(tbl, dateKey, roomIds) ==
    {a \in tbl : a.date = dateKey /\ a.room_id \in roomIds}

\* from('profiles').select('*').eq('role', 'doctor')
SelectDoctors(tbl) == {p \in tbl : p.role = "doctor"}

\* a bug: a plain insert, no conflict target
UpsertNoConflict(tbl, row) == tbl \cup {row}

\* a bug: { onConflict: .., ignoreDuplicates: true } keeps the row a key already has
UpsertIgnoreDuplicates(tbl, row) ==
    IF \E a \in tbl : KeyOf(a) = KeyOf(row) THEN tbl ELSE tbl \cup {row}

\* upsert(row, { onConflict: 'room_id,date,shift' })
Upsert(tbl, row) == {a \in tbl : KeyOf(a) # KeyOf(row)} \cup {row}

\* a bug: the delete filters on the room and the shift only
DeleteAllocationAnyDate(tbl, roomId, dateKey, shift) ==
    [rows |-> {a \in tbl : ~(a.room_id = roomId /\ a.shift = shift)}, error |-> FALSE]

\* delete().eq('room_id', ..).eq('date', ..).eq('shift', ..): the matching rows go,
\* and matching none is no error
DeleteAllocation(tbl, roomId, dateKey, shift) ==
    [rows |-> {a \in tbl : ~(a.room_id = roomId /\ a.date = dateKey /\ a.shift = shift)},
     error |-> FALSE]

\* -------------------------------------------------------- requests ----

Tables == {"rooms", "room_allocations", "profiles"}
Fetches == {"fetchRooms", "fetchAllocations", "fetchDoctors", "dashRooms", "dashAllocs",
            "fetchUsers", "fetchProfessionals", "taskDoctors", "fetchProfile"}

\* the remote writes
Writes == {"insertRoom", "updateRoom", "deleteRoom", "upsert", "deleteAlloc",
           "updateAdmin", "updateProfile", "insertProfile", "deleteProfile",
           "updateProfessional", "insertProfessional", "updateStatus"}

Req(c, kind, cont) ==
    [c |-> c, kind |-> kind, st |-> "sent", cont |-> cont,
     floor |-> NoFloor, sel |-> NoFloor, date |-> "-", rids |-> {},
     room |-> 0, shift |-> NoShift, doc |-> NoDoctor, ord |-> 0, by |-> "-",
     target |-> NoUser, name |-> "", roleDisplay |-> <<>>, role |-> "-", admin |-> FALSE,
     status |-> "",
     rdata |-> <<>>, adata |-> {}, pdata |-> {}]

Capacity(c, n) == Cardinality(net) + n <= MaxInFlight

\* ------------------------------------------------ realtime channels ----

NoFilter == "-"
Channel(topic, table, filter) == [topic |-> topic, table |-> table, filter |-> filter]

\* the channels one run of a page's subscription effect creates and subscribes; the
\* Dashboard's rooms channel carries the sector of the render
ChannelsOf(pg, floor) ==
    CASE pg = "DailyMap" ->
             {Channel("rooms_realtime", "rooms", NoFilter),
              Channel("allocations_realtime", "room_allocations", NoFilter),
              Channel("doctors_realtime", "profiles", "doctor")}
      [] pg = "Dashboard" ->
             {Channel("dashboard_rooms", "rooms", floor),
              Channel("dashboard_allocs", "room_allocations", NoFilter)}
      [] pg = "Users" -> {Channel("public:profiles:users", "profiles", NoFilter)}
      [] pg = "Professionals" -> {Channel("public:profiles:doctor", "profiles", "doctor")}
      [] OTHER -> {}

\* a bug: the cleanup forgets the doctors channel
RemoveChannelsButDoctors(held, created) ==
    held (-) SetToBag({ch \in created : ch.topic # "doctors_realtime"})

\* the cleanup of an effect run: supabase.removeChannel(..) of each channel the run
\* created
RemoveChannels(held, created) == held (-) SetToBag(created)

\* .channel(..).on(..).subscribe() of each channel of the run
SubscribeChannels(held, created) == held (+) SetToBag(created)

\* a dependency of the subscription effect of page `pg` changed: the cleanup of the
\* previous run (created under sector `old`), then the run of the new render
Resubscribe(c, pg, old, new) ==
    [channels EXCEPT ![c] =
        SubscribeChannels(RemoveChannels(@, ChannelsOf(pg, old)), ChannelsOf(pg, new))]

\* the change event of a committed write reaches every view that watches the table:
\* DailyMap rooms, room_allocations and the profiles of doctors (filter role=eq.doctor),
\* Dashboard room_allocations and the rooms of its sector (filter
\* sector=eq.selectedFloor), Users the profiles, Professionals the profiles of doctors
Watches(c, tbl, scope) ==
    CASE page[c] = "DailyMap" ->
             tbl \in {"rooms", "room_allocations"} \/ (tbl = "profiles" /\ scope = "doctor")
      [] page[c] = "Dashboard" ->
             tbl = "room_allocations" \/ (tbl = "rooms" /\ scope = selectedFloor[c])
      [] page[c] = "Users" -> tbl = "profiles"
      [] page[c] = "Professionals" -> tbl = "profiles" /\ scope = "doctor"
      [] OTHER -> FALSE

Notify(tables, scope) ==
    [c \in Clients |-> notif[c] \cup {t \in tables : Watches(c, t, scope)}]

\* the sector of a stored room
RoomSector(id) ==
    IF \E x \in tblRooms : x.id = id
    THEN (CHOOSE x \in tblRooms : x.id = id).sector ELSE NoFloor

\* DailyMap.getAllocation: the first cached allocation of the room and shift
getAllocation(c, roomId, shift) ==
    {a \in allocations[c] : a.room_id = roomId /\ a.shift = shift}

canEdit(c) == user[c].role # "doctor"

NoWrite == [by |-> "-", doc |-> NoDoctor]
NoDone == [kind |-> "none", room |-> 0, shift |-> NoShift, date |-> "-", doc |-> NoDoctor]

storeVars == <<tblRooms, tblAllocations, tblProfiles, nextRoomId, lastAssign, lastWrite>>
viewVars == <<page, floorVars, currentDate, rooms, allocations, doctors, activeTab,
              selectedSlot, showAllocationModal, editingRoomId, shown, user,
              session, roomsSel, roomsFresh, done>>

\* ---------------------------------------------- DailyMap: the fetches ----

\* fetchRooms of the render whose selectedFloor is `floor`, called while `sel` is selected
fetchRooms(c, floor, sel, cont) ==
    [Req(c, "fetchRooms", cont) EXCEPT !.floor = floor, !.sel = sel]

fetchDoctors(c) == Req(c, "fetchDoctors", "none")

\* fetchAllocations of the render whose currentDate / rooms are `day` / `roomIds`: with no
\* room it empties the cache at once, otherwise it queries the store
fetchAllocations(c, dateKey, roomIds, cont, slot, doc) ==
    IF roomIds = {}
    THEN [reqs |-> {}, sync |-> TRUE]
    ELSE [reqs |-> {[Req(c, "fetchAllocations", cont) EXCEPT
                        !.date = dateKey, !.rids = roomIds,
                        !.room = slot.roomId, !.shift = slot.shift, !.doc = doc]},
          sync |-> FALSE]

\* useEffect(.., [currentDate, rooms]): if (rooms.length > 0) fetchAllocations()
EffectDateRooms(c, day, rs) ==
    IF Len(rs) > 0
    THEN fetchAllocations(c, formatDateKey(day), RoomIdsOf(rs), "none", NoSlot, NoDoctor).reqs
    ELSE {}

\* the store answers a read with its rows at that moment; .single() is an error when
\* there is no row
StoreRead(r) ==
    /\ r \in net /\ r.st = "sent" /\ r.kind \in Fetches
    /\ net' = (net \ {r}) \cup
         {[r EXCEPT !.st = IF r.kind = "fetchProfile" /\ \A p \in tblProfiles : p.id # r.target
                          THEN "error" ELSE "ok",
                    !.rdata = IF r.kind \in {"fetchRooms", "dashRooms"}
                              THEN SelectRooms(tblRooms, r.floor) ELSE r.rdata,
                    !.adata = IF r.kind \in {"fetchAllocations", "dashAllocs"}
                              THEN SelectAllocations(tblAllocations, r.date, r.rids) ELSE {},
                    !.pdata = CASE r.kind \in {"fetchDoctors", "fetchProfessionals",
                                                "taskDoctors"} ->
                                       SelectDoctors(tblProfiles)
                                [] r.kind = "fetchUsers" -> tblProfiles
                                [] r.kind = "fetchProfile" ->
                                       {p \in tblProfiles : p.id = r.target}
                                [] OTHER -> {}]}
    /\ UNCHANGED <<pageVars, storeVars, notif, viewVars, ops, failed>>

\* the network or the store rejects a request: { data: null, error }
TransportError(r) ==
    /\ r \in net /\ r.st = "sent"
    /\ ops < MaxOps
    /\ ops' = ops + 1
    /\ net' = (net \ {r}) \cup {[r EXCEPT !.st = "error"]}
    /\ failed' = (failed \/ r.kind \in Fetches)
    /\ UNCHANGED <<pageVars, storeVars, notif, viewVars>>

\* a bug: the setter is given an updater that appends to the previous collection,
\* set(prev => [...prev, ...next])
setStateMerged(prev, next) == prev \cup next

\* setDoctors(mapped), setAllocations(data || []), setUsers(mappedUsers): a useState
\* setter called with a value replaces the previous collection
setState(prev, next) == next

\* fetchRooms resumes: setRooms(data || []) and the effects of the new room list (the
\* allocations fetch, and the subscription effect, whose fetchAllocations dependency is
\* a new callback); an error is logged and the cache kept.  handleSaveRoom, when it
\* awaits this call, then resets the form.
RecvFetchRooms(r) ==
    LET c == r.c IN
    /\ r \in net /\ r.kind = "fetchRooms" /\ r.st # "sent"
    /\ rooms' = IF r.st = "ok" THEN [rooms EXCEPT ![c] = r.rdata] ELSE rooms
    /\ roomsSel' = IF r.st = "ok" THEN [roomsSel EXCEPT ![c] = r.sel] ELSE roomsSel
    /\ roomsFresh' = IF r.st = "ok" /\ r.floor = selectedFloor[c]
                     THEN [roomsFresh EXCEPT ![c] = TRUE] ELSE roomsFresh
    /\ net' = (net \ {r}) \cup
              (IF r.st = "ok" THEN EffectDateRooms(c, currentDate[c], r.rdata) ELSE {})
    /\ editingRoomId' = IF r.cont = "handleSaveRoom"
                        THEN [editingRoomId EXCEPT ![c] = 0] ELSE editingRoomId
    /\ channels' = IF r.st = "ok" /\ page[c] = "DailyMap"
                   THEN Resubscribe(c, "DailyMap", selectedFloor[c], selectedFloor[c])
                   ELSE channels
    /\ UNCHANGED <<pageData, storeVars, notif, page, floorVars, currentDate,
                   allocations,
                   doctors, activeTab, selectedSlot, showAllocationModal, shown, user, session,
                   ops, failed, done>>

\* fetchDoctors resumes: setDoctors(mapped); an error is logged and the cache kept
RecvFetchDoctors(r) ==
    LET c == r.c IN
    /\ r \in net /\ r.kind = "fetchDoctors" /\ r.st # "sent"
    /\ doctors' = IF r.st = "ok"
                  THEN [doctors EXCEPT ![c] = setState(@, {MapDoctor(p) : p \in r.pdata})]
                  ELSE doctors
    /\ net' = net \ {r}
    /\ UNCHANGED <<pageVars, storeVars, notif, page, floorVars, currentDate, rooms,
                   allocations,
                   activeTab, selectedSlot, showAllocationModal, editingRoomId, shown,
                   user, session, ops, roomsSel, roomsFresh, failed, done>>

\* Tasks.fetchDoctors of the render whose selectedFloor is `floor`
taskDoctors(c, floor) == [Req(c, "taskDoctors", "none") EXCEPT !.floor = floor]

\* Tasks.fetchDoctors resumes: setDoctors of the mapped doctors that have no sector or
\* the sector of the render; an error is logged and the cache kept
RecvTaskDoctors(r) ==
    LET c == r.c
        mapped == {MapTaskDoctor(p) : p \in r.pdata}
    IN
    /\ r \in net /\ r.kind = "taskDoctors" /\ r.st # "sent"
    /\ doctors' = IF r.st = "ok"
                  THEN [doctors EXCEPT ![c] =
                           {d \in mapped : d.sector = <<>> \/ d.sector = <<r.floor>>}]
                  ELSE doctors
    /\ net' = net \ {r}
    /\ UNCHANGED <<pageVars, storeVars, notif, page, floorVars, currentDate, rooms,
                   allocations,
                   activeTab, selectedSlot, showAllocationModal, editingRoomId, shown,
                   user, session, ops, roomsSel, roomsFresh, failed, done>>

\* fetchAllocations resumes: setAllocations(data || []); an error is logged and the
\* cache kept.  handleClearSlot, when it awaits this call, then closes the modal.
RecvFetchAllocations(r) ==
    LET c == r.c
        key == <<r.room, r.date, r.shift>>
        mine == /\ r.st = "ok"
                /\ r.cont \in {"handleAssignDoctor", "handleClearSlot"}
                /\ lastWrite[key] = [by |-> c, doc |-> r.doc]
    IN
    /\ r \in net /\ r.kind = "fetchAllocations" /\ r.st # "sent"
    /\ allocations' = IF r.st = "ok" THEN [allocations EXCEPT ![c] = setState(@, r.adata)]
                      ELSE allocations
    /\ showAllocationModal' = IF r.cont = "handleClearSlot"
                              THEN [showAllocationModal EXCEPT ![c] = FALSE]
                              ELSE showAllocationModal
    /\ done' = IF mine
               THEN [done EXCEPT ![c] =
                        [kind |-> IF r.cont = "handleClearSlot" THEN "clear" ELSE "assign",
                         room |-> r.room, shift |-> r.shift, date |-> r.date, doc |-> r.doc]]
               ELSE done
    /\ net' = net \ {r}
    /\ UNCHANGED <<pageVars, storeVars, notif, page, floorVars, currentDate, rooms,
                   doctors,
                   activeTab, selectedSlot, editingRoomId, shown, user, session, ops,
                   roomsSel, roomsFresh, failed>>

\* a change event reaches a subscribed view, whose callback re-runs the fetch of the
\* current render
Notification(c, tbl) ==
    /\ page[c] = "DailyMap" /\ tbl \in notif[c]
    /\ notif' = [notif EXCEPT ![c] = @ \ {tbl}]
    /\ LET call == fetchAllocations(c, formatDateKey(currentDate[c]), RoomIdsOf(rooms[c]),
                                    "none", NoSlot, NoDoctor)
           new == CASE tbl = "rooms" ->
                         {fetchRooms(c, selectedFloor[c], selectedFloor[c], "none")}
                    [] tbl = "room_allocations" -> call.reqs
                    [] OTHER -> {fetchDoctors(c)}
       IN /\ Cardinality((net \cup new)) > Cardinality(net) => Capacity(c, 1)
          /\ net' = net \cup new
          /\ allocations' = IF tbl = "room_allocations" /\ call.sync
                            THEN [allocations EXCEPT ![c] = {}] ELSE allocations
    /\ UNCHANGED <<pageVars, storeVars, page, floorVars, currentDate, rooms, doctors,
                   activeTab,
                   selectedSlot, showAllocationModal, editingRoomId, shown, user, session, ops,
                   roomsSel, roomsFresh, failed, done>>

\* ------------------------------------------ the store commits a write ----

RoomName == "Sala"
RoomNames == {"", RoomName}

Answer(r, st) == (net \ {r}) \cup {[r EXCEPT !.st = st]}

\* from('rooms').insert({ name, extension, sector, order })
StoreInsertRoom(r) ==
    /\ r \in net /\ r.st = "sent" /\ r.kind = "insertRoom"
    /\ nextRoomId \in RoomIds
    /\ tblRooms' = tblRooms \cup
         {[id |-> nextRoomId, name |-> RoomName, sector |-> r.floor, order |-> r.ord]}
    /\ nextRoomId' = nextRoomId + 1
    /\ notif' = Notify({"rooms"}, r.floor)
    /\ net' = Answer(r, "ok")
    /\ UNCHANGED <<pageVars, tblAllocations, tblProfiles, lastAssign, lastWrite,
                   viewVars, ops, failed>>

\* from('rooms').update({ name, extension }).eq('id', editingRoomId)
StoreUpdateRoom(r) ==
    /\ r \in net /\ r.st = "sent" /\ r.kind = "updateRoom"
    /\ tblRooms' = {IF x.id = r.room THEN [x EXCEPT !.name = RoomName] ELSE x : x \in tblRooms}
    /\ notif' = IF \E x \in tblRooms : x.id = r.room
                THEN Notify({"rooms"}, RoomSector(r.room)) ELSE notif
    /\ net' = Answer(r, "ok")
    /\ UNCHANGED <<pageVars, tblAllocations, tblProfiles, nextRoomId, lastAssign, lastWrite,
                   viewVars, ops, failed>>

\* from('rooms').delete().eq('id', id): the room goes, and its allocations with it
\* ("Excluir esta sala e suas alocacoes?")
StoreDeleteRoom(r) ==
    LET gone == {a \in tblAllocations : a.room_id = r.room} IN
    /\ r \in net /\ r.st = "sent" /\ r.kind = "deleteRoom"
    /\ tblRooms' = {x \in tblRooms : x.id # r.room}
    /\ tblAllocations' = tblAllocations \ gone
    /\ lastWrite' = [k \in SlotKeys |->
                        IF \E a \in gone : KeyOf(a) = k THEN NoWrite ELSE lastWrite[k]]
    /\ notif' = Notify((IF tblRooms' # tblRooms THEN {"rooms"} ELSE {}) \cup
                       (IF gone # {} THEN {"room_allocations"} ELSE {}),
                       RoomSector(r.room))
    /\ net' = Answer(r, "ok")
    /\ UNCHANGED <<pageVars, tblProfiles, nextRoomId, lastAssign, viewVars, ops, failed>>

\* from('room_allocations').upsert({ room_id, doctor_id, date, shift, created_by },
\*                                 { onConflict: 'room_id,date,shift' });
\* a row that references a room no longer in the store is rejected
StoreUpsert(r) ==
    LET row == [room_id |-> r.room, doctor_id |-> r.doc, date |-> r.date,
                shift |-> r.shift, created_by |-> r.by]
        ok == \E x \in tblRooms : x.id = r.room
    IN
    /\ r \in net /\ r.st = "sent" /\ r.kind = "upsert"
    /\ tblAllocations' = IF ok THEN Upsert(tblAllocations, row) ELSE tblAllocations
    /\ lastAssign' = IF ok THEN [lastAssign EXCEPT ![KeyOf(row)] = r.doc] ELSE lastAssign
    /\ lastWrite' = IF ok THEN [lastWrite EXCEPT ![KeyOf(row)] = [by |-> r.c, doc |-> r.doc]]
                     ELSE lastWrite
    /\ notif' = IF ok THEN Notify({"room_allocations"}, NoFloor) ELSE notif
    /\ net' = Answer(r, IF ok THEN "ok" ELSE "error")
    /\ UNCHANGED <<pageVars, tblRooms, tblProfiles, nextRoomId, viewVars, ops, failed>>

\* from('room_allocations').delete().eq('room_id', ..).eq('date', ..).eq('shift', ..)
StoreDeleteAllocation(r) ==
    LET res == DeleteAllocation(tblAllocations, r.room, r.date, r.shift)
        key == <<r.room, r.date, r.shift>>
    IN
    /\ r \in net /\ r.st = "sent" /\ r.kind = "deleteAlloc"
    /\ tblAllocations' = IF res.error THEN tblAllocations ELSE res.rows
    /\ lastWrite' = IF res.error THEN lastWrite
                     ELSE [lastWrite EXCEPT ![key] = [by |-> r.c, doc |-> NoDoctor]]
    /\ notif' = IF tblAllocations' # tblAllocations
                THEN Notify({"room_allocations"}, NoFloor) ELSE notif
    /\ net' = Answer(r, IF res.error THEN "error" ELSE "ok")
    /\ UNCHANGED <<pageVars, tblRooms, tblProfiles, nextRoomId, lastAssign, viewVars,
                   ops, failed>>

\* --------------------------------------------- DailyMap: the handlers ----

\* handleSaveRoom: a blank name returns at once; otherwise the update of the room being
\* edited, or the insert of a room of the selected sector, ordered after the cached rooms
handleSaveRoom(c, name) ==
    /\ page[c] = "DailyMap" /\ activeTab[c] = "rooms"
    /\ IF name = ""
       THEN UNCHANGED vars
       ELSE /\ ops < MaxOps /\ Capacity(c, 1)
            /\ editingRoomId[c] = 0 =>
                 nextRoomId + Cardinality({q \in net : q.kind = "insertRoom" /\ q.st = "sent"})
                     \in RoomIds
            /\ ops' = ops + 1
            /\ net' = net \cup
                 {IF editingRoomId[c] # 0
                  THEN [Req(c, "updateRoom", "handleSaveRoom") EXCEPT
                           !.room = editingRoomId[c], !.floor = selectedFloor[c]]
                  ELSE [Req(c, "insertRoom", "handleSaveRoom") EXCEPT
                           !.floor = selectedFloor[c], !.ord = Len(rooms[c])]}
            /\ UNCHANGED <<pageVars, storeVars, notif, viewVars, failed>>

\* handleSaveRoom resumes after the write: fetchRooms() of the render of the click, and
\* on an error the alert
RecvSaveRoom(r) ==
    LET c == r.c IN
    /\ r \in net /\ r.kind \in {"insertRoom", "updateRoom"} /\ r.st # "sent"
    /\ net' = (net \ {r}) \cup
              (IF r.st = "ok"
               THEN {fetchRooms(c, r.floor, selectedFloor[c], "handleSaveRoom")} ELSE {})
    /\ shown' = IF r.st = "ok" THEN shown
                ELSE [shown EXCEPT ![c] = Append(@, "Erro ao salvar sala")]
    /\ UNCHANGED <<pageVars, storeVars, notif, page, floorVars, currentDate, rooms,
                   allocations,
                   doctors, activeTab, selectedSlot, showAllocationModal, editingRoomId,
                   user, session, ops, roomsSel, roomsFresh, failed, done>>

\* the edit button of a listed room: setEditingRoomId(room.id)
ClickEditRoom(c, id) ==
    /\ page[c] = "DailyMap" /\ activeTab[c] = "rooms"
    /\ id \in RoomIdsOf(rooms[c]) /\ editingRoomId[c] # id
    /\ editingRoomId' = [editingRoomId EXCEPT ![c] = id]
    /\ ops < MaxOps /\ ops' = ops + 1
    /\ UNCHANGED <<pageVars, storeVars, net, notif, page, floorVars, currentDate, rooms,
                   allocations, doctors, activeTab, selectedSlot, showAllocationModal,
                   shown, user, session, roomsSel, roomsFresh, failed, done>>

\* handleDeleteRoom: once confirmed, the delete
handleDeleteRoom(c, id, confirmed) ==
    /\ page[c] = "DailyMap" /\ activeTab[c] = "rooms"
    /\ id \in RoomIdsOf(rooms[c])
    /\ IF ~confirmed
       THEN UNCHANGED vars
       ELSE /\ ops < MaxOps /\ Capacity(c, 1)
            /\ ops' = ops + 1
            /\ net' = net \cup {[Req(c, "deleteRoom", "handleDeleteRoom") EXCEPT
                                    !.room = id, !.floor = selectedFloor[c]]}
            /\ UNCHANGED <<pageVars, storeVars, notif, viewVars, failed>>

\* handleDeleteRoom resumes: the result is not looked at, fetchRooms() is called and
\* not awaited
RecvDeleteRoom(r) ==
    LET c == r.c IN
    /\ r \in net /\ r.kind = "deleteRoom" /\ r.st # "sent"
    /\ net' = (net \ {r}) \cup {fetchRooms(c, r.floor, selectedFloor[c], "none")}
    /\ UNCHANGED <<pageVars, storeVars, notif, viewVars, ops, failed>>

\* the tab buttons: "Gerenciar Salas" is rendered for canEdit only, "Cadastrar salas
\* agora" whenever the map has no room
setActiveTab(c, tab) ==
    /\ page[c] = "DailyMap" /\ ~showAllocationModal[c] /\ tab # activeTab[c]
    /\ tab = "rooms" => (canEdit(c) \/ Len(rooms[c]) = 0)
    /\ activeTab' = [activeTab EXCEPT ![c] = tab]
    /\ ops < MaxOps /\ ops' = ops + 1
    /\ UNCHANGED <<pageVars, storeVars, net, notif, page, floorVars, currentDate, rooms,
                   allocations, doctors, selectedSlot, showAllocationModal, editingRoomId,
                   shown, user, session, roomsSel, roomsFresh, failed, done>>

\* a slot of a listed room is clicked:
\* canEdit && (setSelectedSlot(..), setShowAllocationModal(true))
ClickSlot(c, roomId, shift) ==
    /\ page[c] = "DailyMap" /\ activeTab[c] = "map" /\ ~showAllocationModal[c]
    /\ canEdit(c) /\ roomId \in RoomIdsOf(rooms[c])
    /\ selectedSlot' = [selectedSlot EXCEPT ![c] = [roomId |-> roomId, shift |-> shift]]
    /\ showAllocationModal' = [showAllocationModal EXCEPT ![c] = TRUE]
    /\ ops < MaxOps /\ ops' = ops + 1
    /\ UNCHANGED <<pageVars, storeVars, net, notif, page, floorVars, currentDate, rooms,
                   allocations, doctors, activeTab, editingRoomId, shown, user, session,
                   roomsSel, roomsFresh, failed, done>>

\* "Cancelar": setShowAllocationModal(false)
CancelModal(c) ==
    /\ showAllocationModal[c]
    /\ showAllocationModal' = [showAllocationModal EXCEPT ![c] = FALSE]
    /\ ops < MaxOps /\ ops' = ops + 1
    /\ UNCHANGED <<pageVars, storeVars, net, notif, page, floorVars, currentDate, rooms,
                   allocations, doctors, activeTab, selectedSlot, editingRoomId, shown,
                   user, session, roomsSel, roomsFresh, failed, done>>

\* handleAssignDoctor: a doctor the modal lists (sector = selectedFloor) is clicked
handleAssignDoctor(c, doctorId) ==
    /\ page[c] = "DailyMap" /\ showAllocationModal[c] /\ selectedSlot[c] # NoSlot
    /\ \E d \in doctors[c] : d.id = doctorId /\ d.sector = <<selectedFloor[c]>>
    /\ ops < MaxOps /\ Capacity(c, 1)
    /\ ops' = ops + 1
    /\ net' = net \cup {[Req(c, "upsert", "handleAssignDoctor") EXCEPT
                            !.room = selectedSlot[c].roomId, !.shift = selectedSlot[c].shift,
                            !.date = formatDateKey(currentDate[c]), !.doc = doctorId,
                            !.by = user[c].id, !.rids = RoomIdsOf(rooms[c])]}
    /\ done' = [done EXCEPT ![c] = NoDone]
    /\ UNCHANGED <<pageVars, storeVars, notif, page, floorVars, currentDate, rooms,
                   allocations,
                   doctors, activeTab, selectedSlot, showAllocationModal, editingRoomId,
                   shown, user, session, roomsSel, roomsFresh, failed>>

\* handleClearSlot: "Remover Alocacao", rendered when the cache holds an allocation of
\* the selected slot
handleClearSlot(c) ==
    /\ page[c] = "DailyMap" /\ showAllocationModal[c] /\ selectedSlot[c] # NoSlot
    /\ getAllocation(c, selectedSlot[c].roomId, selectedSlot[c].shift) # {}
    /\ ops < MaxOps /\ Capacity(c, 1)
    /\ ops' = ops + 1
    /\ net' = net \cup {[Req(c, "deleteAlloc", "handleClearSlot") EXCEPT
                            !.room = selectedSlot[c].roomId, !.shift = selectedSlot[c].shift,
                            !.date = formatDateKey(currentDate[c]),
                            !.rids = RoomIdsOf(rooms[c])]}
    /\ done' = [done EXCEPT ![c] = NoDone]
    /\ UNCHANGED <<pageVars, storeVars, notif, page, floorVars, currentDate, rooms,
                   allocations,
                   doctors, activeTab, selectedSlot, showAllocationModal, editingRoomId,
                   shown, user, session, roomsSel, roomsFresh, failed>>

\* handleAssignDoctor / handleClearSlot resume after the write: on success
\* fetchAllocations() of the render of the click is awaited (the assign closes the modal
\* before it, the clear after it); on an error the alert
RecvSlotWrite(r) ==
    LET c == r.c
        call == fetchAllocations(c, r.date, r.rids, r.cont,
                                 [roomId |-> r.room, shift |-> r.shift], r.doc)
    IN
    /\ r \in net /\ r.kind \in {"upsert", "deleteAlloc"} /\ r.st # "sent"
    /\ net' = (net \ {r}) \cup (IF r.st = "ok" THEN call.reqs ELSE {})
    /\ allocations' = IF r.st = "ok" /\ call.sync
                      THEN [allocations EXCEPT ![c] = {}] ELSE allocations
    /\ showAllocationModal' =
         IF r.st = "ok" /\ (r.kind = "upsert" \/ call.sync)
         THEN [showAllocationModal EXCEPT ![c] = FALSE] ELSE showAllocationModal
    /\ shown' = IF r.st = "ok" THEN shown
                ELSE [shown EXCEPT ![c] = Append(@, IF r.kind = "upsert"
                                                     THEN "Erro ao realizar alocacao"
                                                     ELSE "Erro ao remover alocacao")]
    /\ UNCHANGED <<pageVars, storeVars, notif, page, floorVars, currentDate, rooms,
                   doctors,
                   activeTab, selectedSlot, editingRoomId, user, session, ops, roomsSel, roomsFresh,
                   failed, done>>

\* changeDate(days): setCurrentDate; the date effect re-fetches the allocations and the
\* subscription effect runs again (fetchAllocations is a new callback)
changeDate(c, days) ==
    /\ page[c] = "DailyMap" /\ activeTab[c] = "map" /\ ~showAllocationModal[c]
    /\ currentDate[c] + days \in Days
    /\ ops < MaxOps
    /\ LET new == EffectDateRooms(c, currentDate[c] + days, rooms[c])
       IN /\ Capacity(c, Cardinality(new \ net))
          /\ net' = net \cup new
    /\ ops' = ops + 1
    /\ currentDate' = [currentDate EXCEPT ![c] = @ + days]
    /\ done' = [done EXCEPT ![c] = NoDone]
    /\ channels' = Resubscribe(c, "DailyMap", selectedFloor[c], selectedFloor[c])
    /\ UNCHANGED <<pageData, storeVars, notif, page, floorVars, rooms, allocations,
                   doctors,
                   activeTab, selectedSlot, showAllocationModal, editingRoomId, shown,
                   user, session, roomsSel, roomsFresh, failed>>

\* ------------------------------------------------------- Dashboard ----

\* Dashboard.getLocalDateKey(): the day the views open on
todayDateKey == formatDateKey(1)

\* Dashboard.fetchRealtimeData of the render whose selectedFloor is `floor`: first the
\* rooms of the sector
fetchRealtimeData(c, floor) ==
    [Req(c, "dashRooms", "fetchRealtimeData") EXCEPT !.floor = floor, !.date = todayDateKey]

\* fetchRealtimeData resumes after the rooms query, whose error it does not read:
\* roomIds = (roomsData || []).map(r => r.id); with a room it queries today's allocations
\* of these rooms, with none it sets both caches: setRooms(roomsData || []),
\* setAllocations([])
RecvDashRooms(r) ==
    LET c == r.c
        roomsData == IF r.st = "ok" THEN r.rdata ELSE <<>>
        roomIds == RoomIdsOf(roomsData)
    IN
    /\ r \in net /\ r.kind = "dashRooms" /\ r.st # "sent"
    /\ IF roomIds # {}
       THEN /\ net' = (net \ {r}) \cup
                      {[r EXCEPT !.kind = "dashAllocs", !.st = "sent", !.rids = roomIds,
                                 !.rdata = roomsData]}
            /\ UNCHANGED <<dashRooms, dashAllocations>>
       ELSE /\ net' = net \ {r}
            /\ dashRooms' = [dashRooms EXCEPT ![c] = roomsData]
            /\ dashAllocations' = [dashAllocations EXCEPT ![c] = {}]
    /\ UNCHANGED <<storeVars, notif, viewVars, ops, failed, users, isModalOpen, editingUser,
                   formData, professionals, channels>>

\* fetchRealtimeData resumes after the allocations query, whose error it does not read
\* either: allocsData = data || []; setRooms(roomsData || []); setAllocations(allocsData)
RecvDashAllocs(r) ==
    LET c == r.c
        allocsData == IF r.st = "ok" THEN r.adata ELSE {}
    IN
    /\ r \in net /\ r.kind = "dashAllocs" /\ r.st # "sent"
    /\ net' = net \ {r}
    /\ dashRooms' = [dashRooms EXCEPT ![c] = r.rdata]
    /\ dashAllocations' = [dashAllocations EXCEPT ![c] = allocsData]
    /\ UNCHANGED <<storeVars, notif, viewVars, ops, failed, users, isModalOpen, editingUser,
                   formData, professionals, channels>>

\* a change event reaches the Dashboard, whose callback runs fetchRealtimeData()
DashNotification(c, tbl) ==
    /\ page[c] = "Dashboard" /\ tbl \in notif[c]
    /\ notif' = [notif EXCEPT ![c] = @ \ {tbl}]
    /\ LET new == {fetchRealtimeData(c, selectedFloor[c])}
       IN /\ Capacity(c, Cardinality(new \ net))
          /\ net' = net \cup new
    /\ UNCHANGED <<pageVars, storeVars, viewVars, ops, failed>>

\* ----------------------------------------------------------- Users ----

\* Users.fetchUsers: profile row -> UnifiedUser
MapUser(p) ==
    [id |-> p.id,
     name |-> IF p.name = "" THEN "Sem Nome" ELSE p.name,
     roleType |-> p.role,
     roleDisplay |-> IF p.specialty # <<>> THEN p.specialty
                     ELSE IF p.role = "reception" THEN <<"Recepcao">> ELSE <<"Medico">>,
     status |-> IF p.status = "" THEN "offline" ELSE p.status,
     isAdmin |-> p.is_admin]

\* Professionals.fetchProfessionals: profile row -> Doctor
MapProfessional(p) ==
    LET parts == SplitPipe(p.specialty)
    IN [id |-> p.id,
        name |-> IF p.name = "" THEN "Sem Nome" ELSE p.name,
        specialty |-> Trim(PartOr(parts, 1, <<"Geral">>)),
        sector |-> Trim(PartOr(parts, 2, <<>>)),
        status |-> IF p.status = "" THEN "active" ELSE p.status,
        isAdmin |-> p.is_admin]

\* a bug: the refresh of the list also marks the caller online
fetchUsersMarksOnline(c) ==
    [Req(c, "updateStatus", "none") EXCEPT !.target = user[c].id, !.status = "online"]

fetchUsers(c) == Req(c, "fetchUsers", "none")
fetchProfessionals(c) == Req(c, "fetchProfessionals", "none")

Toast(c, msg) == [shown EXCEPT ![c] = Append(@, msg)]

NoForm == [name |-> "", roleDisplay |-> <<>>, role |-> "reception", isAdmin |-> FALSE]

dailyViews == <<floorVars, currentDate, rooms, allocations, doctors, activeTab,
                selectedSlot, showAllocationModal, editingRoomId, roomsSel, roomsFresh,
                done, page, user, session>>

\* fetchUsers resumes: setUsers(mapped), or the toast of the catch
RecvFetchUsers(r) ==
    LET c == r.c IN
    /\ r \in net /\ r.kind = "fetchUsers" /\ r.st # "sent"
    /\ net' = net \ {r}
    /\ users' = IF r.st = "ok"
                THEN [users EXCEPT ![c] = setState(@, {MapUser(p) : p \in r.pdata})]
                ELSE users
    /\ shown' = IF r.st = "ok" THEN shown ELSE Toast(c, "Erro ao carregar usuarios.")
    /\ UNCHANGED <<storeVars, notif, dailyViews, ops, failed, dashRooms, dashAllocations,
                   isModalOpen, editingUser, formData, professionals, channels>>

\* fetchProfessionals resumes: setProfessionals(mapped), or the toast of the catch
RecvFetchProfessionals(r) ==
    LET c == r.c IN
    /\ r \in net /\ r.kind = "fetchProfessionals" /\ r.st # "sent"
    /\ net' = net \ {r}
    /\ professionals' = IF r.st = "ok"
                        THEN [professionals EXCEPT ![c] = {MapProfessional(p) : p \in r.pdata}]
                        ELSE professionals
    /\ shown' = IF r.st = "ok" THEN shown ELSE Toast(c, "Erro ao carregar profissionais")
    /\ UNCHANGED <<storeVars, notif, dailyViews, ops, failed, dashRooms, dashAllocations,
                   users, isModalOpen, editingUser, formData, channels>>

\* a profiles change event reaches Users or Professionals, whose callback refetches
ProfilesNotification(c) ==
    /\ page[c] \in {"Users", "Professionals"} /\ "profiles" \in notif[c]
    /\ notif' = [notif EXCEPT ![c] = @ \ {"profiles"}]
    /\ LET new == IF page[c] = "Users" THEN {fetchUsers(c)} ELSE {fetchProfessionals(c)}
       IN /\ Capacity(c, Cardinality(new \ net))
          /\ net' = net \cup new
    /\ UNCHANGED <<pageVars, storeVars, viewVars, ops, failed>>

\* the profile ids crypto.randomUUID() can give a created user
NewUserIds == {"N1"}

ProfileRole(id) ==
    IF \E x \in tblProfiles : x.id = id
    THEN (CHOOSE x \in tblProfiles : x.id = id).role ELSE "-"

\* a bug: no user is taken for the actor
IsSelfNever(c, userId) == FALSE

\* userId === currentUser?.id
IsSelf(c, userId) == userId = user[c].id

\* Users.toggleAdmin(userId, currentStatus), from the switch of a listed user's card
\* (rendered for an administrator): the user's own id only gets the alert; otherwise
\* update({ is_admin: !currentStatus }).eq('id', userId)
toggleAdmin(c, userId) ==
    /\ page[c] = "Users" /\ user[c].isAdmin /\ ~isModalOpen[c]
    /\ \E u \in users[c] : u.id = userId
    /\ ops < MaxOps /\ ops' = ops + 1
    /\ IF IsSelf(c, userId)
       THEN /\ shown' = Toast(c, "Voce nao pode alterar seu proprio status de administrador")
            /\ UNCHANGED net
       ELSE /\ Capacity(c, 1)
            /\ net' = net \cup
                 {[Req(c, "updateAdmin", "toggleAdmin") EXCEPT
                      !.target = userId, !.by = user[c].id,
                      !.admin = ~(CHOOSE u \in users[c] : u.id = userId).isAdmin]}
            /\ UNCHANGED shown
    /\ UNCHANGED <<pageVars, storeVars, notif, dailyViews, failed>>

\* Users.handleDeleteUser(userId): the user's own id only gets the alert; otherwise,
\* once confirmed, delete().eq('id', userId)
handleDeleteUser(c, userId, confirmed) ==
    /\ page[c] = "Users" /\ user[c].isAdmin /\ ~isModalOpen[c]
    /\ \E u \in users[c] : u.id = userId
    /\ ops < MaxOps /\ ops' = ops + 1
    /\ IF IsSelf(c, userId)
       THEN /\ shown' = Toast(c, "Voce nao pode excluir seu proprio usuario.")
            /\ UNCHANGED net
       ELSE /\ confirmed => Capacity(c, 1)
            /\ net' = IF confirmed
                      THEN net \cup {[Req(c, "deleteProfile", "handleDeleteUser") EXCEPT
                                         !.target = userId, !.by = user[c].id]}
                      ELSE net
            /\ UNCHANGED shown
    /\ UNCHANGED <<pageVars, storeVars, notif, dailyViews, failed>>

\* Users.openCreateModal: an empty form of a reception user of the first sector
openCreateModal(c) ==
    /\ page[c] = "Users" /\ user[c].isAdmin /\ ~isModalOpen[c]
    /\ ops < MaxOps /\ ops' = ops + 1
    /\ editingUser' = [editingUser EXCEPT ![c] = NoUser]
    /\ formData' = [formData EXCEPT ![c] = [NoForm EXCEPT !.roleDisplay = <<DefaultFloor>>]]
    /\ isModalOpen' = [isModalOpen EXCEPT ![c] = TRUE]
    /\ UNCHANGED <<storeVars, net, notif, viewVars, failed, dashRooms, dashAllocations,
                   users, professionals, channels>>

\* Users.openEditModal(user), from the edit button of any listed user's card, the
\* administrator's own included: the form takes the cached user
openEditModal(c, userId) ==
    /\ page[c] = "Users" /\ user[c].isAdmin /\ ~isModalOpen[c]
    /\ ops < MaxOps /\ ops' = ops + 1
    /\ \E u \in users[c] :
          /\ u.id = userId
          /\ editingUser' = [editingUser EXCEPT ![c] = userId]
          /\ formData' = [formData EXCEPT ![c] =
                             [name |-> u.name, roleDisplay |-> u.roleDisplay,
                              role |-> u.roleType, isAdmin |-> u.isAdmin]]
    /\ isModalOpen' = [isModalOpen EXCEPT ![c] = TRUE]
    /\ UNCHANGED <<storeVars, net, notif, viewVars, failed, dashRooms, dashAllocations,
                   users, professionals, channels>>

\* the form's inputs: setFormData({ ...formData, name }) / ({ ...formData, isAdmin })
setFormData(c, name, isAdmin) ==
    /\ page[c] = "Users" /\ isModalOpen[c]
    /\ <<name, isAdmin>> # <<formData[c].name, formData[c].isAdmin>>
    /\ ops < MaxOps /\ ops' = ops + 1
    /\ formData' = [formData EXCEPT ![c] = [@ EXCEPT !.name = name, !.isAdmin = isAdmin]]
    /\ UNCHANGED <<storeVars, net, notif, viewVars, failed, dashRooms, dashAllocations,
                   users, isModalOpen, editingUser, professionals, channels>>

\* the modal's Cancelar: setIsModalOpen(false)
closeUserModal(c) ==
    /\ page[c] = "Users" /\ isModalOpen[c]
    /\ ops < MaxOps /\ ops' = ops + 1
    /\ isModalOpen' = [isModalOpen EXCEPT ![c] = FALSE]
    /\ UNCHANGED <<storeVars, net, notif, viewVars, failed, dashRooms, dashAllocations,
                   users, editingUser, formData, professionals, channels>>

\* a bug: the form is never found incomplete
UserFormAlwaysComplete(f) == FALSE

\* !formData.name || !formData.roleDisplay
UserFormMissing(f) == f.name = "" \/ f.roleDisplay = <<>>

\* the form's sector / specialty input: a select of the sectors for a reception user, a
\* free text for a doctor
setFormRoleDisplay(c, rd) ==
    /\ page[c] = "Users" /\ isModalOpen[c]
    /\ rd # formData[c].roleDisplay
    /\ formData[c].role = "reception" => \E f \in FLOOR_OPTIONS : rd = <<f>>
    /\ ops < MaxOps /\ ops' = ops + 1
    /\ formData' = [formData EXCEPT ![c] = [@ EXCEPT !.roleDisplay = rd]]
    /\ UNCHANGED <<storeVars, net, notif, viewVars, failed, dashRooms, dashAllocations,
                   users, isModalOpen, editingUser, professionals, channels>>

\* Users.handleSaveUser: a blank name or sector/specialty only gets the alert; otherwise
\* the update of the user being edited, is_admin: formData.isAdmin included, or the
\* insert of a new profile under a generated id
handleSaveUser(c) ==
    /\ page[c] = "Users" /\ isModalOpen[c]
    /\ ops < MaxOps /\ ops' = ops + 1
    /\ IF UserFormMissing(formData[c])
       THEN /\ shown' = Toast(c, "Nome e Setor/Especialidade sao obrigatorios.")
            /\ UNCHANGED net
       ELSE /\ Capacity(c, 1)
            /\ \E id \in (IF editingUser[c] # NoUser THEN {editingUser[c]} ELSE NewUserIds) :
                 net' = net \cup
                   {[Req(c, IF editingUser[c] # NoUser THEN "updateProfile"
                                                       ELSE "insertProfile",
                         "handleSaveUser") EXCEPT
                        !.target = id, !.by = user[c].id, !.name = formData[c].name,
                        !.roleDisplay = formData[c].roleDisplay, !.role = formData[c].role,
                        !.admin = formData[c].isAdmin]}
            /\ UNCHANGED shown
    /\ UNCHANGED <<pageVars, storeVars, notif, dailyViews, failed>>

\* Professionals.handleDelete(id), from the delete button of a listed professional's
\* card (the professionals of the selected sector, for an administrator): once
\* confirmed, delete().eq('id', id)
handleDelete(c, id, confirmed) ==
    /\ page[c] = "Professionals" /\ user[c].isAdmin
    /\ \E d \in professionals[c] : d.id = id /\ d.sector = <<selectedFloor[c]>>
    /\ ops < MaxOps /\ ops' = ops + 1
    /\ confirmed => Capacity(c, 1)
    /\ net' = IF confirmed
              THEN net \cup {[Req(c, "deleteProfile", "handleDelete") EXCEPT
                                 !.target = id, !.by = user[c].id]}
              ELSE net
    /\ UNCHANGED <<pageVars, storeVars, notif, viewVars, failed>>

\* the title Professionals.handleSave puts before the name, and openModal strips
FullName(name) ==
    CASE name = "Ana" -> "Dr Ana"
      [] name = "D1" -> "Dr D1"
      [] name = "D2" -> "Dr D2"
      [] OTHER -> name
StripTitle(name) ==
    CASE name = "Dr Ana" -> "Ana"
      [] name = "Dr D1" -> "D1"
      [] name = "Dr D2" -> "D2"
      [] OTHER -> name

\* Professionals.openModal(prof), from "Novo Profissional" (id = NoUser) or the edit
\* button of a listed professional's card, both rendered for an administrator
openModal(c, id) ==
    /\ page[c] = "Professionals" /\ user[c].isAdmin /\ ~isModalOpen[c]
    /\ ops < MaxOps /\ ops' = ops + 1
    /\ IF id = NoUser
       THEN formData' = [formData EXCEPT ![c] =
                            [name |-> "", specialty |-> <<>>,
                             sector |-> <<selectedFloor[c]>>, status |-> "active"]]
       ELSE \E prof \in professionals[c] :
               /\ prof.id = id /\ prof.sector = <<selectedFloor[c]>>
               /\ formData' = [formData EXCEPT ![c] =
                                  [name |-> StripTitle(prof.name),
                                   specialty |-> prof.specialty,
                                   sector |-> IF prof.sector # <<>> THEN prof.sector
                                              ELSE <<selectedFloor[c]>>,
                                   status |-> prof.status]]
    /\ editingUser' = [editingUser EXCEPT ![c] = id]
    /\ isModalOpen' = [isModalOpen EXCEPT ![c] = TRUE]
    /\ UNCHANGED <<storeVars, net, notif, viewVars, failed, dashRooms, dashAllocations,
                   users, professionals, channels>>

\* the Professionals form's inputs: the name, and the specialty select ("Selecione..."
\* is the empty value)
setProfFormData(c, name, specialty) ==
    /\ page[c] = "Professionals" /\ isModalOpen[c]
    /\ <<name, specialty>> # <<formData[c].name, formData[c].specialty>>
    /\ ops < MaxOps /\ ops' = ops + 1
    /\ formData' = [formData EXCEPT ![c] = [@ EXCEPT !.name = name, !.specialty = specialty]]
    /\ UNCHANGED <<storeVars, net, notif, viewVars, failed, dashRooms, dashAllocations,
                   users, isModalOpen, editingUser, professionals, channels>>

\* the Professionals modal's Cancelar: setIsModalOpen(false)
closeModal(c) ==
    /\ page[c] = "Professionals" /\ isModalOpen[c]
    /\ ops < MaxOps /\ ops' = ops + 1
    /\ isModalOpen' = [isModalOpen EXCEPT ![c] = FALSE]
    /\ UNCHANGED <<storeVars, net, notif, viewVars, failed, dashRooms, dashAllocations,
                   users, editingUser, formData, professionals, channels>>

\* !formData.name
ProfFormMissing(f) == f.name = ""

\* Professionals.handleSave: a blank name only gets the alert; otherwise the update of
\* the professional being edited, or the insert of a new profile under a generated id,
\* with the titled name and specialty: `${specialty} | ${sector}`
handleSave(c) ==
    /\ page[c] = "Professionals" /\ isModalOpen[c]
    /\ ops < MaxOps /\ ops' = ops + 1
    /\ IF ProfFormMissing(formData[c])
       THEN /\ shown' = Toast(c, "Nome e obrigatorio.")
            /\ UNCHANGED net
       ELSE /\ Capacity(c, 1)
            /\ \E id \in (IF editingUser[c] # NoUser THEN {editingUser[c]} ELSE NewUserIds) :
                 net' = net \cup
                   {[Req(c, IF editingUser[c] # NoUser THEN "updateProfessional"
                                                       ELSE "insertProfessional",
                         "handleSave") EXCEPT
                        !.target = id, !.by = user[c].id,
                        !.name = FullName(formData[c].name),
                        !.roleDisplay = formData[c].specialty \o <<Pipe>> \o formData[c].sector,
                        !.role = "doctor", !.status = formData[c].status]}
            /\ UNCHANGED shown
    /\ UNCHANGED <<pageVars, storeVars, notif, dailyViews, failed>>

\* from('profiles').update(profData).eq('id', editingProfessional.id), or
\* from('profiles').insert([{ ...profData, id }]), which a duplicate id fails and which
\* leaves is_admin to the column's default
StoreSaveProfessional(r) ==
    LET update == r.kind = "updateProfessional"
        ok == update \/ \A x \in tblProfiles : x.id # r.target
        row == [id |-> r.target, name |-> r.name, role |-> r.role,
                specialty |-> r.roleDisplay, is_admin |-> FALSE, status |-> r.status]
    IN
    /\ r \in net /\ r.st = "sent" /\ r.kind \in {"updateProfessional", "insertProfessional"}
    /\ tblProfiles' =
         IF update
         THEN {IF x.id = r.target THEN [row EXCEPT !.is_admin = x.is_admin] ELSE x
                 : x \in tblProfiles}
         ELSE IF ok THEN tblProfiles \cup {row} ELSE tblProfiles
    /\ notif' = IF tblProfiles' # tblProfiles THEN Notify({"profiles"}, r.role) ELSE notif
    /\ net' = Answer(r, IF ok THEN "ok" ELSE "error")
    /\ UNCHANGED <<pageVars, tblRooms, tblAllocations, nextRoomId, lastAssign, lastWrite,
                   viewVars, ops, failed>>

\* handleSave resumes: on success the toast, setIsModalOpen(false) and
\* fetchProfessionals(); on an error the toast
RecvSaveProfessional(r) ==
    LET c == r.c IN
    /\ r \in net /\ r.kind \in {"updateProfessional", "insertProfessional"} /\ r.st # "sent"
    /\ net' = (net \ {r}) \cup (IF r.st = "ok" THEN {fetchProfessionals(c)} ELSE {})
    /\ shown' = Toast(c, CASE r.st # "ok" -> "Erro ao salvar profissional."
                           [] r.kind = "updateProfessional" ->
                                "Profissional atualizado com sucesso!"
                           [] OTHER -> "Profissional criado com sucesso!")
    /\ isModalOpen' = IF r.st = "ok" THEN [isModalOpen EXCEPT ![c] = FALSE] ELSE isModalOpen
    /\ UNCHANGED <<storeVars, notif, dailyViews, ops, failed, dashRooms, dashAllocations,
                   users, editingUser, formData, professionals, channels>>

\* from('profiles').update({ is_admin }).eq('id', userId)
StoreUpdateAdmin(r) ==
    /\ r \in net /\ r.st = "sent" /\ r.kind = "updateAdmin"
    /\ tblProfiles' = {IF x.id = r.target THEN [x EXCEPT !.is_admin = r.admin] ELSE x
                        : x \in tblProfiles}
    /\ notif' = IF \E x \in tblProfiles : x.id = r.target
                THEN Notify({"profiles"}, ProfileRole(r.target)) ELSE notif
    /\ net' = Answer(r, "ok")
    /\ UNCHANGED <<pageVars, tblRooms, tblAllocations, nextRoomId, lastAssign, lastWrite,
                   viewVars, ops, failed>>

\* from('profiles').update(profileData).eq('id', editingUser.id)
StoreUpdateProfile(r) ==
    /\ r \in net /\ r.st = "sent" /\ r.kind = "updateProfile"
    /\ tblProfiles' = {IF x.id = r.target
                        THEN [x EXCEPT !.name = r.name, !.role = r.role,
                                       !.specialty = r.roleDisplay, !.is_admin = r.admin]
                        ELSE x : x \in tblProfiles}
    /\ notif' = IF \E x \in tblProfiles : x.id = r.target
                THEN Notify({"profiles"}, r.role) ELSE notif
    /\ net' = Answer(r, "ok")
    /\ UNCHANGED <<pageVars, tblRooms, tblAllocations, nextRoomId, lastAssign, lastWrite,
                   viewVars, ops, failed>>

\* from('profiles').insert([{ ...profileData, id }]): a duplicate id is rejected
StoreInsertProfile(r) ==
    LET ok == \A x \in tblProfiles : x.id # r.target IN
    /\ r \in net /\ r.st = "sent" /\ r.kind = "insertProfile"
    /\ tblProfiles' = IF ok
                      THEN tblProfiles \cup
                             {[id |-> r.target, name |-> r.name, role |-> r.role,
                               specialty |-> r.roleDisplay, is_admin |-> r.admin,
                               status |-> ""]}
                      ELSE tblProfiles
    /\ notif' = IF ok THEN Notify({"profiles"}, r.role) ELSE notif
    /\ net' = Answer(r, IF ok THEN "ok" ELSE "error")
    /\ UNCHANGED <<pageVars, tblRooms, tblAllocations, nextRoomId, lastAssign, lastWrite,
                   viewVars, ops, failed>>

\* from('profiles').delete().eq('id', id)
StoreDeleteProfile(r) ==
    /\ r \in net /\ r.st = "sent" /\ r.kind = "deleteProfile"
    /\ tblProfiles' = {x \in tblProfiles : x.id # r.target}
    /\ notif' = IF \E x \in tblProfiles : x.id = r.target
                THEN Notify({"profiles"}, ProfileRole(r.target)) ELSE notif
    /\ net' = Answer(r, "ok")
    /\ UNCHANGED <<pageVars, tblRooms, tblAllocations, nextRoomId, lastAssign, lastWrite,
                   viewVars, ops, failed>>

\* toggleAdmin resumes: the toast of the outcome
RecvToggleAdmin(r) ==
    /\ r \in net /\ r.kind = "updateAdmin" /\ r.cont = "toggleAdmin" /\ r.st # "sent"
    /\ net' = net \ {r}
    /\ shown' = Toast(r.c, IF r.st = "error" THEN "Erro ao alterar permissao."
                           ELSE IF r.admin THEN "Usuario promovido a Admin!"
                           ELSE "Status de Admin removido.")
    /\ UNCHANGED <<pageVars, storeVars, notif, dailyViews, ops, failed>>

\* handleDeleteUser / Professionals.handleDelete resume: the toast, and on success the
\* refetch of the list
RecvDeleteProfile(r) ==
    LET c == r.c
        again == IF r.cont = "handleDeleteUser" THEN fetchUsers(c) ELSE fetchProfessionals(c)
    IN
    /\ r \in net /\ r.kind = "deleteProfile" /\ r.st # "sent"
    /\ net' = (net \ {r}) \cup (IF r.st = "ok" THEN {again} ELSE {})
    /\ shown' = Toast(c, CASE r.st = "ok" /\ r.cont = "handleDeleteUser" ->
                                "Usuario removido com sucesso."
                           [] r.st = "ok" /\ r.cont # "handleDeleteUser" ->
                                "Profissional excluido."
                           [] r.st # "ok" /\ r.cont = "handleDeleteUser" ->
                                "Erro ao remover usuario."
                           [] OTHER -> "Erro ao excluir profissional.")
    /\ UNCHANGED <<pageVars, storeVars, notif, dailyViews, ops, failed>>

\* handleSaveUser resumes: on success the toast, setIsModalOpen(false) and fetchUsers();
\* on an error the toast
RecvSaveUser(r) ==
    LET c == r.c IN
    /\ r \in net /\ r.kind \in {"updateProfile", "insertProfile"} /\ r.st # "sent"
    /\ net' = (net \ {r}) \cup (IF r.st = "ok" THEN {fetchUsers(c)} ELSE {})
    /\ shown' = Toast(c, CASE r.st # "ok" -> "Erro ao salvar usuario."
                           [] r.kind = "updateProfile" -> "Usuario atualizado com sucesso!"
                           [] OTHER -> "Novo usuario criado!")
    /\ isModalOpen' = IF r.st = "ok" THEN [isModalOpen EXCEPT ![c] = FALSE] ELSE isModalOpen
    /\ UNCHANGED <<storeVars, notif, dailyViews, ops, failed, dashRooms, dashAllocations,
                   users, editingUser, formData, professionals, channels>>

\* a bug: the selection is not written to the storage
setItemDropped(stored, floor) == stored

\* localStorage.setItem('mediportal_selected_floor', floor)
setItem(stored, floor) == floor

\* a bug: no fallback, the sector is whatever getItem returns
InitialFloorRaw(stored) == stored

\* useState(() => localStorage.getItem('mediportal_selected_floor') || <first sector>)
InitialFloor(stored) == IF stored = NoStored \/ stored = "" THEN DefaultFloor ELSE stored

\* AuthContext.setSelectedFloor(floor): setSelectedFloorState, the write to the
\* storage, and the effect of the mounted page that depends on the sector: DailyMap
\* runs fetchDoctors() and fetchRooms(), Dashboard fetchRealtimeData(), Professionals
\* fetchProfessionals(), and
\* each of them runs its subscription effect again (the Users effect has no dependency)
setSelectedFloor(c, floor) ==
    /\ floor \in SectorSelector /\ floor # selectedFloor[c]
    /\ ~showAllocationModal[c] /\ ~isModalOpen[c]
    /\ ops < MaxOps
    /\ LET new == CASE page[c] = "DailyMap" ->
                         {fetchDoctors(c), fetchRooms(c, floor, floor, "none")}
                    [] page[c] = "Dashboard" -> {fetchRealtimeData(c, floor)}
                    [] page[c] = "Professionals" -> {Req(c, "fetchProfessionals", "none")}
                    [] OTHER -> {}
       IN /\ Capacity(c, Cardinality(new \ net))
          /\ net' = net \cup new
    /\ ops' = ops + 1
    /\ selectedFloor' = [selectedFloor EXCEPT ![c] = floor]
    /\ storedFloor' = [storedFloor EXCEPT ![c] = setItem(@, floor)]
    /\ reloaded' = [reloaded EXCEPT ![c] = FALSE]
    /\ roomsFresh' = [roomsFresh EXCEPT ![c] = FALSE]
    /\ done' = [done EXCEPT ![c] = NoDone]
    /\ channels' = IF page[c] = "Users" THEN channels
                   ELSE Resubscribe(c, page[c], selectedFloor[c], floor)
    /\ UNCHANGED <<pageData, storeVars, notif, page, currentDate, rooms, allocations,
                   doctors,
                   activeTab, selectedSlot, showAllocationModal, editingRoomId, shown,
                   user, session, roomsSel, failed>>

\* the page of an idle view goes away: the cleanup of its subscription effect runs, the
\* component's state is gone and the events of the removed channels are never
\* delivered
Teardown(c) ==
    /\ page[c] \in {"DailyMap", "Dashboard"}
    /\ ~showAllocationModal[c] /\ \A r \in net : r.c # c
    /\ ops < MaxOps /\ ops' = ops + 1
    /\ page' = [page EXCEPT ![c] = NoPage]
    /\ channels' = [channels EXCEPT ![c] =
                        RemoveChannels(@, ChannelsOf(page[c], selectedFloor[c]))]
    /\ notif' = [notif EXCEPT ![c] = {}]
    /\ rooms' = [rooms EXCEPT ![c] = <<>>]
    /\ allocations' = [allocations EXCEPT ![c] = {}]
    /\ doctors' = [doctors EXCEPT ![c] = {}]
    /\ currentDate' = [currentDate EXCEPT ![c] = 1]
    /\ activeTab' = [activeTab EXCEPT ![c] = "map"]
    /\ selectedSlot' = [selectedSlot EXCEPT ![c] = NoSlot]
    /\ editingRoomId' = [editingRoomId EXCEPT ![c] = 0]
    /\ dashRooms' = [dashRooms EXCEPT ![c] = <<>>]
    /\ dashAllocations' = [dashAllocations EXCEPT ![c] = {}]
    /\ roomsSel' = [roomsSel EXCEPT ![c] = NoFloor]
    /\ roomsFresh' = [roomsFresh EXCEPT ![c] = FALSE]
    /\ done' = [done EXCEPT ![c] = NoDone]
    /\ UNCHANGED <<storeVars, net, showAllocationModal, shown, user, session, failed,
                   users, isModalOpen, editingUser, formData, professionals>>

\* the router unmounts the page
Unmount(c) == Teardown(c) /\ UNCHANGED floorVars

\* the browser reloads the application: the page goes away and AuthProvider starts
\* again, its selectedFloor read from the storage
Reload(c) ==
    /\ Teardown(c)
    /\ selectedFloor' = [selectedFloor EXCEPT ![c] = InitialFloor(storedFloor[c])]
    /\ reloaded' = [reloaded EXCEPT ![c] = TRUE]
    /\ UNCHANGED storedFloor

\* the router mounts a page: its state is the initial state, its mount effects run the
\* first fetches and subscribe its channels
Mount(c, pg) ==
    /\ page[c] = NoPage /\ pg \in {"DailyMap", "Dashboard"}
    /\ ops < MaxOps /\ ops' = ops + 1
    /\ page' = [page EXCEPT ![c] = pg]
    /\ LET new == IF pg = "DailyMap"
                  THEN {fetchDoctors(c),
                        fetchRooms(c, selectedFloor[c], selectedFloor[c], "none")}
                  ELSE {fetchRealtimeData(c, selectedFloor[c])}
       IN /\ Capacity(c, Cardinality(new \ net))
          /\ net' = net \cup new
    /\ channels' = [channels EXCEPT ![c] =
                        SubscribeChannels(@, ChannelsOf(pg, selectedFloor[c]))]
    /\ UNCHANGED <<pageData, storeVars, notif, floorVars, currentDate, rooms,
                   allocations, doctors, activeTab, selectedSlot, showAllocationModal,
                   editingRoomId, shown, user, session, roomsSel, roomsFresh, failed, done>>

\* ----------------------------------------------------- AuthContext ----

\* the name fetchProfile promotes
PromotedName == "Luiz Gustavo Macedo Segura"

\* the account each client signs in with
UserId(c) == IF c = "c1" THEN "U1" ELSE "U2"

\* user = null
NoIdentity == [id |-> NoUser, role |-> "-", isAdmin |-> FALSE, status |-> ""]

\* fetchProfile: profile row -> User
MapIdentity(data) ==
    [id |-> data.id, role |-> IF data.role = "" THEN "reception" ELSE data.role,
     isAdmin |-> data.is_admin, status |-> data.status]

\* fetchProfile(userId)
fetchProfile(c, userId) == [Req(c, "fetchProfile", "none") EXCEPT !.target = userId]

authViews == <<page, floorVars, currentDate, rooms, allocations, doctors, activeTab,
               selectedSlot, showAllocationModal, editingRoomId, roomsSel, roomsFresh,
               done, shown>>

\* the session of a signed-out client starts (onAuthStateChange): fetchProfile
login(c) ==
    /\ user[c] = NoIdentity /\ \A r \in net : r.c # c
    /\ ops < MaxOps /\ ops' = ops + 1
    /\ Capacity(c, 1)
    /\ session' = [session EXCEPT ![c] = TRUE]
    /\ net' = net \cup {fetchProfile(c, UserId(c))}
    /\ UNCHANGED <<pageVars, storeVars, notif, authViews, user, failed>>

\* refreshProfile(): fetchProfile(session.user.id) when a session is present
refreshProfile(c) ==
    /\ session[c]
    /\ ops < MaxOps /\ ops' = ops + 1
    /\ Capacity(c, 1)
    /\ net' = net \cup {fetchProfile(c, UserId(c))}
    /\ UNCHANGED <<pageVars, storeVars, notif, authViews, user, session, failed>>

\* fetchProfile resumes after the select: an error is logged; a row of the promoted
\* name that is no administrator is first updated with is_admin: true, any other row
\* is mapped and set as the identity
RecvFetchProfile(r) ==
    LET c == r.c
        data == CHOOSE p \in r.pdata : TRUE
    IN
    /\ r \in net /\ r.kind = "fetchProfile" /\ r.st # "sent"
    /\ IF r.st = "ok" /\ r.pdata # {}
       THEN IF data.name = PromotedName /\ ~data.is_admin
            THEN /\ net' = (net \ {r}) \cup
                           {[Req(c, "updateAdmin", "fetchProfile") EXCEPT
                                !.target = r.target, !.by = r.target, !.admin = TRUE,
                                !.pdata = r.pdata]}
                 /\ UNCHANGED user
            ELSE /\ net' = net \ {r}
                 /\ user' = [user EXCEPT ![c] = MapIdentity(data)]
       ELSE /\ net' = net \ {r}
            /\ UNCHANGED user
    /\ UNCHANGED <<pageVars, storeVars, notif, authViews, session, ops, failed>>

\* fetchProfile resumes after the promotion, whose result it does not read:
\* data.is_admin = true, then the identity is mapped and set
RecvPromote(r) ==
    LET c == r.c
        data == CHOOSE p \in r.pdata : TRUE
    IN
    /\ r \in net /\ r.kind = "updateAdmin" /\ r.cont = "fetchProfile" /\ r.st # "sent"
    /\ net' = net \ {r}
    /\ user' = [user EXCEPT ![c] = MapIdentity([data EXCEPT !.is_admin = TRUE])]
    /\ UNCHANGED <<pageVars, storeVars, notif, authViews, session, ops, failed>>

\* updateStatus(status): the optimistic setUser, then update({ status }).eq('id', user.id)
updateStatus(c, status) ==
    /\ user[c] # NoIdentity /\ status # user[c].status
    /\ ops < MaxOps /\ ops' = ops + 1
    /\ Capacity(c, 1)
    /\ user' = [user EXCEPT ![c] = [@ EXCEPT !.status = status]]
    /\ net' = net \cup {[Req(c, "updateStatus", "updateStatus") EXCEPT
                            !.target = user[c].id, !.by = user[c].id, !.status = status]}
    /\ UNCHANGED <<pageVars, storeVars, notif, authViews, session, failed>>

\* logout: update({ status: 'offline' }).eq('id', user.id), awaited before the sign-out
logout(c) ==
    /\ user[c] # NoIdentity /\ page[c] = NoPage
    /\ ops < MaxOps /\ ops' = ops + 1
    /\ Capacity(c, 1)
    /\ net' = net \cup {[Req(c, "updateStatus", "logout") EXCEPT
                            !.target = user[c].id, !.by = user[c].id, !.status = "offline"]}
    /\ UNCHANGED <<pageVars, storeVars, notif, authViews, user, session, failed>>

\* from('profiles').update({ status }).eq('id', user.id)
StoreUpdateStatus(r) ==
    /\ r \in net /\ r.st = "sent" /\ r.kind = "updateStatus"
    /\ tblProfiles' = {IF x.id = r.target THEN [x EXCEPT !.status = r.status] ELSE x
                        : x \in tblProfiles}
    /\ notif' = IF \E x \in tblProfiles : x.id = r.target
                THEN Notify({"profiles"}, ProfileRole(r.target)) ELSE notif
    /\ net' = Answer(r, "ok")
    /\ UNCHANGED <<pageVars, tblRooms, tblAllocations, nextRoomId, lastAssign, lastWrite,
                   viewVars, ops, failed>>

\* updateStatus resumes: an error is logged, the optimistic identity kept; logout
\* resumes, whatever the result: signOut(), setUser(null), setSession(null)
RecvUpdateStatus(r) ==
    LET c == r.c IN
    /\ r \in net /\ r.kind = "updateStatus" /\ r.st # "sent"
    /\ net' = net \ {r}
    /\ user' = IF r.cont = "logout" THEN [user EXCEPT ![c] = NoIdentity] ELSE user
    /\ session' = IF r.cont = "logout" THEN [session EXCEPT ![c] = FALSE] ELSE session
    /\ UNCHANGED <<pageVars, storeVars, notif, authViews, ops, failed>>

\* ------------------------------------------------- the specification ----

Doctor(id, floor) ==
    [id |-> id, name |-> id, role |-> "doctor", specialty |-> <<"Cardiologia", Pipe, floor>>,
     is_admin |-> FALSE, status |-> ""]
Reception(id) ==
    [id |-> id, name |-> id, role |-> "reception", specialty |-> <<"Recepcao">>,
     is_admin |-> FALSE, status |-> ""]

\* two reception desks have the daily map of the default sector open and loaded: each
\* view has mounted, its fetches have been answered and its three channels are
\* subscribed.  The sector has one room and both doctors; the store holds no
\* allocation, or one made earlier by the second desk.
\* no page but DailyMap has been opened
OtherPagesClosed ==
    /\ dashRooms = [c \in Clients |-> <<>>]
    /\ dashAllocations = [c \in Clients |-> {}]
    /\ users = [c \in Clients |-> {}]
    /\ isModalOpen = [c \in Clients |-> FALSE]
    /\ editingUser = [c \in Clients |-> NoUser]
    /\ formData = [c \in Clients |-> NoForm]
    /\ professionals = [c \in Clients |-> {}]

Room1 == [id |-> 1, name |-> RoomName, sector |-> DefaultFloor, order |-> 0]
Alloc1 == [room_id |-> 1, doctor_id |-> "D1", date |-> formatDateKey(1),
           shift |-> "morning", created_by |-> "U2"]

Init ==
    /\ tblRooms = {Room1}
    /\ tblAllocations \in {{}, {Alloc1}}
    /\ tblProfiles = {Doctor(d, DefaultFloor) : d \in DoctorIds}
                       \cup {Reception(UserId(c)) : c \in Clients}
    /\ nextRoomId = 2
    /\ selectedFloor = [c \in Clients |-> DefaultFloor]
    /\ page = [c \in Clients |-> "DailyMap"]
    /\ net = {}
    /\ notif = [c \in Clients |-> {}]
    /\ currentDate = [c \in Clients |-> 1]
    /\ rooms = [c \in Clients |-> SelectRooms(tblRooms, DefaultFloor)]
    /\ allocations = [c \in Clients |-> tblAllocations]
    /\ doctors = [c \in Clients |-> {MapDoctor(p) : p \in SelectDoctors(tblProfiles)}]
    /\ activeTab = [c \in Clients |-> "map"]
    /\ selectedSlot = [c \in Clients |-> NoSlot]
    /\ showAllocationModal = [c \in Clients |-> FALSE]
    /\ editingRoomId = [c \in Clients |-> 0]
    /\ shown = [c \in Clients |-> <<>>]
    /\ user = [c \in Clients |-> [id |-> UserId(c), role |-> "reception", isAdmin |-> FALSE,
                                  status |-> ""]]
    /\ session = [c \in Clients |-> TRUE]
    /\ ops = 0
    /\ lastAssign = [k \in SlotKeys |->
                        IF \E a \in tblAllocations : KeyOf(a) = k THEN "D1" ELSE NoDoctor]
    /\ lastWrite = [k \in SlotKeys |->
                       IF \E a \in tblAllocations : KeyOf(a) = k
                       THEN [by |-> "c2", doc |-> "D1"] ELSE NoWrite]
    /\ roomsSel = [c \in Clients |-> DefaultFloor]
    /\ roomsFresh = [c \in Clients |-> TRUE]
    /\ failed = FALSE
    /\ done = [c \in Clients |-> NoDone]
    /\ OtherPagesClosed
    /\ channels = [c \in Clients |-> SetToBag(ChannelsOf(page[c], selectedFloor[c]))]
    /\ storedFloor = [c \in Clients |-> NoStored]
    /\ reloaded = [c \in Clients |-> FALSE]

Next ==
    \/ \E r \in net : StoreRead(r)
    \/ \E r \in net : TransportError(r)
    \/ \E r \in net : RecvFetchRooms(r)
    \/ \E r \in net : RecvFetchDoctors(r)
    \/ \E r \in net : RecvFetchAllocations(r)
    \/ \E c \in Clients, tbl \in Tables : Notification(c, tbl)
    \/ \E r \in net : StoreInsertRoom(r)
    \/ \E r \in net : StoreUpdateRoom(r)
    \/ \E r \in net : StoreDeleteRoom(r)
    \/ \E r \in net : StoreUpsert(r)
    \/ \E r \in net : StoreDeleteAllocation(r)
    \/ \E c \in Clients, name \in RoomNames : handleSaveRoom(c, name)
    \/ \E r \in net : RecvSaveRoom(r)
    \/ \E c \in Clients, id \in RoomIds : ClickEditRoom(c, id)
    \/ \E c \in Clients, id \in RoomIds, b \in BOOLEAN : handleDeleteRoom(c, id, b)
    \/ \E r \in net : RecvDeleteRoom(r)
    \/ \E c \in Clients, tab \in {"map", "rooms"} : setActiveTab(c, tab)
    \/ \E c \in Clients, id \in RoomIds, sh \in Shifts : ClickSlot(c, id, sh)
    \/ \E c \in Clients : CancelModal(c)
    \/ \E c \in Clients, d \in DoctorIds : handleAssignDoctor(c, d)
    \/ \E c \in Clients : handleClearSlot(c)
    \/ \E r \in net : RecvSlotWrite(r)
    \/ \E c \in Clients, days \in {-1, 1} : changeDate(c, days)
    \/ \E c \in Clients, f \in FLOOR_OPTIONS : setSelectedFloor(c, f)

Spec == Init /\ [][Next]_vars

\* the daily map of the default sector, open and loaded, before a doctor and before a
\* reception desk
InitDoctor ==
    /\ tblRooms = {Room1}
    /\ tblAllocations = {Alloc1}
    /\ tblProfiles = {Doctor(d, DefaultFloor) : d \in DoctorIds}
                       \cup {Reception(UserId(c)) : c \in Clients}
    /\ nextRoomId = 2
    /\ selectedFloor = [c \in Clients |-> DefaultFloor]
    /\ page = [c \in Clients |-> "DailyMap"]
    /\ net = {}
    /\ notif = [c \in Clients |-> {}]
    /\ currentDate = [c \in Clients |-> 1]
    /\ rooms = [c \in Clients |-> SelectRooms(tblRooms, DefaultFloor)]
    /\ allocations = [c \in Clients |-> tblAllocations]
    /\ doctors = [c \in Clients |-> {MapDoctor(p) : p \in SelectDoctors(tblProfiles)}]
    /\ activeTab = [c \in Clients |-> "map"]
    /\ selectedSlot = [c \in Clients |-> NoSlot]
    /\ showAllocationModal = [c \in Clients |-> FALSE]
    /\ editingRoomId = [c \in Clients |-> 0]
    /\ shown = [c \in Clients |-> <<>>]
    /\ user = [c \in Clients |->
                 IF c = "c1"
                 THEN [id |-> "D1", role |-> "doctor", isAdmin |-> FALSE, status |-> ""]
                 ELSE [id |-> UserId(c), role |-> "reception", isAdmin |-> FALSE,
                       status |-> ""]]
    /\ session = [c \in Clients |-> TRUE]
    /\ ops = 0
    /\ lastAssign = [k \in SlotKeys |->
                        IF \E a \in tblAllocations : KeyOf(a) = k THEN "D1" ELSE NoDoctor]
    /\ lastWrite = [k \in SlotKeys |->
                       IF \E a \in tblAllocations : KeyOf(a) = k
                       THEN [by |-> "c2", doc |-> "D1"] ELSE NoWrite]
    /\ roomsSel = [c \in Clients |-> DefaultFloor]
    /\ roomsFresh = [c \in Clients |-> TRUE]
    /\ failed = FALSE
    /\ done = [c \in Clients |-> NoDone]
    /\ OtherPagesClosed
    /\ channels = [c \in Clients |-> SetToBag(ChannelsOf(page[c], selectedFloor[c]))]
    /\ storedFloor = [c \in Clients |-> NoStored]
    /\ reloaded = [c \in Clients |-> FALSE]

SpecDoctor == InitDoctor /\ [][Next]_vars

\* a reception desk has the daily map open and loaded while a second user watches the
\* Dashboard of the same sector, loaded too; the store holds the allocation of today
InitDash ==
    /\ tblRooms = {Room1}
    /\ tblAllocations = {Alloc1}
    /\ tblProfiles = {Doctor(d, DefaultFloor) : d \in DoctorIds}
                       \cup {Reception(UserId(c)) : c \in Clients}
    /\ nextRoomId = 2
    /\ selectedFloor = [c \in Clients |-> DefaultFloor]
    /\ page = [c \in Clients |-> IF c = "c1" THEN "DailyMap" ELSE "Dashboard"]
    /\ net = {}
    /\ notif = [c \in Clients |-> {}]
    /\ currentDate = [c \in Clients |-> 1]
    /\ rooms = [c \in Clients |-> IF c = "c1" THEN SelectRooms(tblRooms, DefaultFloor)
                                   ELSE <<>>]
    /\ allocations = [c \in Clients |-> IF c = "c1" THEN tblAllocations ELSE {}]
    /\ doctors = [c \in Clients |-> IF c = "c1"
                                     THEN {MapDoctor(p) : p \in SelectDoctors(tblProfiles)}
                                     ELSE {}]
    /\ activeTab = [c \in Clients |-> "map"]
    /\ selectedSlot = [c \in Clients |-> NoSlot]
    /\ showAllocationModal = [c \in Clients |-> FALSE]
    /\ editingRoomId = [c \in Clients |-> 0]
    /\ shown = [c \in Clients |-> <<>>]
    /\ user = [c \in Clients |-> [id |-> UserId(c), role |-> "reception", isAdmin |-> FALSE,
                                  status |-> ""]]
    /\ session = [c \in Clients |-> TRUE]
    /\ ops = 0
    /\ lastAssign = [k \in SlotKeys |-> IF k = KeyOf(Alloc1) THEN "D1" ELSE NoDoctor]
    /\ lastWrite = [k \in SlotKeys |->
                       IF k = KeyOf(Alloc1) THEN [by |-> "c2", doc |-> "D1"] ELSE NoWrite]
    /\ roomsSel = [c \in Clients |-> DefaultFloor]
    /\ roomsFresh = [c \in Clients |-> c = "c1"]
    /\ failed = FALSE
    /\ done = [c \in Clients |-> NoDone]
    /\ dashRooms = [c \in Clients |-> IF c = "c2" THEN SelectRooms(tblRooms, DefaultFloor)
                                       ELSE <<>>]
    /\ dashAllocations = [c \in Clients |-> IF c = "c2" THEN tblAllocations ELSE {}]
    /\ users = [c \in Clients |-> {}]
    /\ isModalOpen = [c \in Clients |-> FALSE]
    /\ editingUser = [c \in Clients |-> NoUser]
    /\ formData = [c \in Clients |-> NoForm]
    /\ professionals = [c \in Clients |-> {}]
    /\ channels = [c \in Clients |-> SetToBag(ChannelsOf(page[c], selectedFloor[c]))]
    /\ storedFloor = [c \in Clients |-> NoStored]
    /\ reloaded = [c \in Clients |-> FALSE]

NextDash ==
    \/ Next
    \/ \E r \in net : RecvDashRooms(r)
    \/ \E r \in net : RecvDashAllocs(r)
    \/ \E c \in Clients, tbl \in Tables : DashNotification(c, tbl)

SpecDash == InitDash /\ [][NextDash]_vars

\* a doctor who is an administrator has the Users page open and loaded, or the
\* Professionals page of the sector; a reception desk that is no administrator has the
\* Users page open and loaded
Admin(p) == [p EXCEPT !.is_admin = TRUE]
AdminId(c) == IF c = "c1" THEN "D1" ELSE "U2"

InitAdmin ==
    /\ tblRooms = {Room1}
    /\ tblAllocations = {}
    /\ tblProfiles = {Admin(Doctor("D1", DefaultFloor)), Doctor("D2", DefaultFloor),
                       Reception("U2")}
    /\ nextRoomId = 2
    /\ selectedFloor = [c \in Clients |-> DefaultFloor]
    /\ page \in {[c \in Clients |-> IF c = "c1" THEN pg ELSE "Users"]
                   : pg \in {"Users", "Professionals"}}
    /\ net = {}
    /\ notif = [c \in Clients |-> {}]
    /\ currentDate = [c \in Clients |-> 1]
    /\ rooms = [c \in Clients |-> <<>>]
    /\ allocations = [c \in Clients |-> {}]
    /\ doctors = [c \in Clients |-> {}]
    /\ activeTab = [c \in Clients |-> "map"]
    /\ selectedSlot = [c \in Clients |-> NoSlot]
    /\ showAllocationModal = [c \in Clients |-> FALSE]
    /\ editingRoomId = [c \in Clients |-> 0]
    /\ shown = [c \in Clients |-> <<>>]
    /\ user = [c \in Clients |->
                 [id |-> AdminId(c), role |-> IF c = "c1" THEN "doctor" ELSE "reception",
                  isAdmin |-> c = "c1", status |-> ""]]
    /\ session = [c \in Clients |-> TRUE]
    /\ ops = 0
    /\ lastAssign = [k \in SlotKeys |-> NoDoctor]
    /\ lastWrite = [k \in SlotKeys |-> NoWrite]
    /\ roomsSel = [c \in Clients |-> NoFloor]
    /\ roomsFresh = [c \in Clients |-> FALSE]
    /\ failed = FALSE
    /\ done = [c \in Clients |-> NoDone]
    /\ dashRooms = [c \in Clients |-> <<>>]
    /\ dashAllocations = [c \in Clients |-> {}]
    /\ users = [c \in Clients |-> IF page[c] = "Users"
                                   THEN {MapUser(p) : p \in tblProfiles} ELSE {}]
    /\ isModalOpen = [c \in Clients |-> FALSE]
    /\ editingUser = [c \in Clients |-> NoUser]
    /\ formData = [c \in Clients |-> NoForm]
    /\ professionals = [c \in Clients |->
                           IF page[c] = "Professionals"
                           THEN {MapProfessional(p) : p \in SelectDoctors(tblProfiles)}
                           ELSE {}]
    /\ channels = [c \in Clients |-> SetToBag(ChannelsOf(page[c], selectedFloor[c]))]
    /\ storedFloor = [c \in Clients |-> NoStored]
    /\ reloaded = [c \in Clients |-> FALSE]

FormNames == {"", "Ana"}

NextAdmin ==
    \/ \E r \in net : StoreRead(r)
    \/ \E r \in net : TransportError(r)
    \/ \E r \in net : RecvFetchUsers(r)
    \/ \E r \in net : RecvFetchProfessionals(r)
    \/ \E c \in Clients : ProfilesNotification(c)
    \/ \E c \in Clients, u \in DoctorIds \cup {"U2"} \cup NewUserIds : toggleAdmin(c, u)
    \/ \E c \in Clients, u \in DoctorIds \cup {"U2"} \cup NewUserIds, b \in BOOLEAN :
          handleDeleteUser(c, u, b)
    \/ \E c \in Clients : openCreateModal(c)
    \/ \E c \in Clients, u \in DoctorIds \cup {"U2"} \cup NewUserIds : openEditModal(c, u)
    \/ \E c \in Clients, n \in FormNames, b \in BOOLEAN : setFormData(c, n, b)
    \/ \E c \in Clients : closeUserModal(c)
    \/ \E c \in Clients : handleSaveUser(c)
    \/ \E c \in Clients, d \in DoctorIds, b \in BOOLEAN : handleDelete(c, d, b)
    \/ \E r \in net : StoreUpdateAdmin(r)
    \/ \E r \in net : StoreUpdateProfile(r)
    \/ \E r \in net : StoreInsertProfile(r)
    \/ \E r \in net : StoreDeleteProfile(r)
    \/ \E r \in net : RecvToggleAdmin(r)
    \/ \E r \in net : RecvDeleteProfile(r)
    \/ \E r \in net : RecvSaveUser(r)
    \/ \E c \in Clients, f \in FLOOR_OPTIONS : setSelectedFloor(c, f)

SpecAdmin == InitAdmin /\ [][NextAdmin]_vars

\* the views of InitDash, whose pages the router mounts and unmounts; rooms are
\* created, sectors and dates changed
NextNav ==
    \/ \E r \in net : StoreRead(r)
    \/ \E r \in net : RecvFetchRooms(r)
    \/ \E r \in net : RecvFetchDoctors(r)
    \/ \E r \in net : RecvFetchAllocations(r)
    \/ \E c \in Clients, tbl \in Tables : Notification(c, tbl)
    \/ \E r \in net : RecvDashRooms(r)
    \/ \E r \in net : RecvDashAllocs(r)
    \/ \E c \in Clients, tbl \in Tables : DashNotification(c, tbl)
    \/ \E r \in net : StoreInsertRoom(r)
    \/ \E c \in Clients, name \in RoomNames : handleSaveRoom(c, name)
    \/ \E r \in net : RecvSaveRoom(r)
    \/ \E c \in Clients, tab \in {"map", "rooms"} : setActiveTab(c, tab)
    \/ \E c \in Clients, days \in {-1, 1} : changeDate(c, days)
    \/ \E c \in Clients, f \in FLOOR_OPTIONS : setSelectedFloor(c, f)
    \/ \E c \in Clients : Unmount(c)
    \/ \E c \in Clients : Reload(c)
    \/ \E c \in Clients, pg \in {"DailyMap", "Dashboard"} : Mount(c, pg)

SpecNav == InitDash /\ [][NextNav]_vars

\* the composite fields a profile row can hold: up to MaxTokens tokens, each a
\* specialty, a sector label, the delimiter or a blank
MaxTokens == 3
OtherFloor == "8 Andar ( CLINICA MEDICA / CARDIOLOGIA )"
SpecialtyTokens == {"Cardiologia", OtherFloor, Pipe, Space}
SpecialtyInputs == UNION {[1..n -> SpecialtyTokens] : n \in 0..MaxTokens}

\* one doctor's profile, its composite field any of the inputs; the first view has just
\* mounted the daily map or the tasks page and the second the professionals page, both
\* on that doctor's sector, and their first fetches are in flight
InitMap ==
    /\ \E sp \in SpecialtyInputs :
          tblProfiles = {[Doctor("D1", OtherFloor) EXCEPT !.specialty = sp]}
    /\ tblRooms = {} /\ tblAllocations = {} /\ nextRoomId = 1
    /\ selectedFloor = [c \in Clients |-> OtherFloor]
    /\ page \in {[c \in Clients |-> IF c = "c1" THEN pg ELSE "Professionals"]
                   : pg \in {"DailyMap", "Tasks"}}
    /\ net = {fetchProfessionals("c2")} \cup
             (IF page["c1"] = "DailyMap"
              THEN {fetchDoctors("c1"), fetchRooms("c1", OtherFloor, OtherFloor, "none")}
              ELSE {taskDoctors("c1", OtherFloor)})
    /\ notif = [c \in Clients |-> {}]
    /\ currentDate = [c \in Clients |-> 1]
    /\ rooms = [c \in Clients |-> <<>>]
    /\ allocations = [c \in Clients |-> {}]
    /\ doctors = [c \in Clients |-> {}]
    /\ activeTab = [c \in Clients |-> "map"]
    /\ selectedSlot = [c \in Clients |-> NoSlot]
    /\ showAllocationModal = [c \in Clients |-> FALSE]
    /\ editingRoomId = [c \in Clients |-> 0]
    /\ shown = [c \in Clients |-> <<>>]
    /\ user = [c \in Clients |-> [id |-> UserId(c), role |-> "reception", isAdmin |-> FALSE,
                                  status |-> ""]]
    /\ session = [c \in Clients |-> TRUE]
    /\ ops = 0
    /\ lastAssign = [k \in SlotKeys |-> NoDoctor]
    /\ lastWrite = [k \in SlotKeys |-> NoWrite]
    /\ roomsSel = [c \in Clients |-> NoFloor]
    /\ roomsFresh = [c \in Clients |-> FALSE]
    /\ failed = FALSE
    /\ done = [c \in Clients |-> NoDone]
    /\ OtherPagesClosed
    /\ channels = [c \in Clients |-> SetToBag(ChannelsOf(page[c], selectedFloor[c]))]
    /\ storedFloor = [c \in Clients |-> OtherFloor]
    /\ reloaded = [c \in Clients |-> FALSE]

NextMap ==
    \/ \E r \in net : StoreRead(r)
    \/ \E r \in net : RecvFetchRooms(r)
    \/ \E r \in net : RecvFetchDoctors(r)
    \/ \E r \in net : RecvTaskDoctors(r)
    \/ \E r \in net : RecvFetchProfessionals(r)

SpecMap == InitMap /\ [][NextMap]_vars

\* the administrator of InitAdmin on the Users or the Professionals page, and a
\* reception desk on the rooms tab of the daily map, loaded
InitForms ==
    /\ tblRooms = {Room1}
    /\ tblAllocations = {}
    /\ tblProfiles = {Admin(Doctor("D1", DefaultFloor)), Doctor("D2", DefaultFloor),
                       Reception("U2")}
    /\ nextRoomId = 2
    /\ selectedFloor = [c \in Clients |-> DefaultFloor]
    /\ page \in {[c \in Clients |-> IF c = "c1" THEN pg ELSE "DailyMap"]
                   : pg \in {"Users", "Professionals"}}
    /\ net = {}
    /\ notif = [c \in Clients |-> {}]
    /\ currentDate = [c \in Clients |-> 1]
    /\ rooms = [c \in Clients |-> IF c = "c2" THEN SelectRooms(tblRooms, DefaultFloor)
                                   ELSE <<>>]
    /\ allocations = [c \in Clients |-> {}]
    /\ doctors = [c \in Clients |-> IF c = "c2"
                                     THEN {MapDoctor(p) : p \in SelectDoctors(tblProfiles)}
                                     ELSE {}]
    /\ activeTab = [c \in Clients |-> IF c = "c2" THEN "rooms" ELSE "map"]
    /\ selectedSlot = [c \in Clients |-> NoSlot]
    /\ showAllocationModal = [c \in Clients |-> FALSE]
    /\ editingRoomId = [c \in Clients |-> 0]
    /\ shown = [c \in Clients |-> <<>>]
    /\ user = [c \in Clients |->
                 [id |-> AdminId(c), role |-> IF c = "c1" THEN "doctor" ELSE "reception",
                  isAdmin |-> c = "c1", status |-> ""]]
    /\ session = [c \in Clients |-> TRUE]
    /\ ops = 0
    /\ lastAssign = [k \in SlotKeys |-> NoDoctor]
    /\ lastWrite = [k \in SlotKeys |-> NoWrite]
    /\ roomsSel = [c \in Clients |-> IF c = "c2" THEN DefaultFloor ELSE NoFloor]
    /\ roomsFresh = [c \in Clients |-> c = "c2"]
    /\ failed = FALSE
    /\ done = [c \in Clients |-> NoDone]
    /\ dashRooms = [c \in Clients |-> <<>>]
    /\ dashAllocations = [c \in Clients |-> {}]
    /\ users = [c \in Clients |-> IF page[c] = "Users"
                                   THEN {MapUser(p) : p \in tblProfiles} ELSE {}]
    /\ isModalOpen = [c \in Clients |-> FALSE]
    /\ editingUser = [c \in Clients |-> NoUser]
    /\ formData = [c \in Clients |-> NoForm]
    /\ professionals = [c \in Clients |->
                           IF page[c] = "Professionals"
                           THEN {MapProfessional(p) : p \in SelectDoctors(tblProfiles)}
                           ELSE {}]
    /\ channels = [c \in Clients |-> SetToBag(ChannelsOf(page[c], selectedFloor[c]))]
    /\ storedFloor = [c \in Clients |-> NoStored]
    /\ reloaded = [c \in Clients |-> FALSE]

FormSpecialties == {<<>>, <<"Cardiologia">>}

\* the forms of the three pages are filled in and saved
NextForms ==
    \/ \E r \in net : StoreRead(r)
    \/ \E r \in net : RecvFetchRooms(r)
    \/ \E r \in net : RecvFetchDoctors(r)
    \/ \E r \in net : RecvFetchUsers(r)
    \/ \E r \in net : RecvFetchProfessionals(r)
    \/ \E c \in Clients, tbl \in Tables : Notification(c, tbl)
    \/ \E c \in Clients : ProfilesNotification(c)
    \/ \E c \in Clients, name \in RoomNames : handleSaveRoom(c, name)
    \/ \E r \in net : StoreInsertRoom(r)
    \/ \E r \in net : RecvSaveRoom(r)
    \/ \E c \in Clients : openCreateModal(c)
    \/ \E c \in Clients, u \in DoctorIds \cup {"U2"} : openEditModal(c, u)
    \/ \E c \in Clients, n \in FormNames, b \in BOOLEAN : setFormData(c, n, b)
    \/ \E c \in Clients, rd \in FormSpecialties : setFormRoleDisplay(c, rd)
    \/ \E c \in Clients : closeUserModal(c)
    \/ \E c \in Clients : handleSaveUser(c)
    \/ \E r \in net : StoreUpdateProfile(r)
    \/ \E r \in net : StoreInsertProfile(r)
    \/ \E r \in net : RecvSaveUser(r)
    \/ \E c \in Clients, id \in DoctorIds \cup {NoUser} : openModal(c, id)
    \/ \E c \in Clients, n \in FormNames, sp \in FormSpecialties : setProfFormData(c, n, sp)
    \/ \E c \in Clients : closeModal(c)
    \/ \E c \in Clients : handleSave(c)
    \/ \E r \in net : StoreSaveProfessional(r)
    \/ \E r \in net : RecvSaveProfessional(r)

SpecForms == InitForms /\ [][NextForms]_vars

\* two reception users, neither an administrator, the first of the promoted name; the
\* application has just started in both browsers, the session is found and
\* fetchProfile is in flight; no page is mounted
InitAuth ==
    /\ tblRooms = {Room1}
    /\ tblAllocations = {}
    /\ tblProfiles = {[Reception("U1") EXCEPT !.name = PromotedName], Reception("U2")}
    /\ nextRoomId = 2
    /\ selectedFloor = [c \in Clients |-> DefaultFloor]
    /\ page = [c \in Clients |-> NoPage]
    /\ net = {fetchProfile(c, UserId(c)) : c \in Clients}
    /\ notif = [c \in Clients |-> {}]
    /\ currentDate = [c \in Clients |-> 1]
    /\ rooms = [c \in Clients |-> <<>>]
    /\ allocations = [c \in Clients |-> {}]
    /\ doctors = [c \in Clients |-> {}]
    /\ activeTab = [c \in Clients |-> "map"]
    /\ selectedSlot = [c \in Clients |-> NoSlot]
    /\ showAllocationModal = [c \in Clients |-> FALSE]
    /\ editingRoomId = [c \in Clients |-> 0]
    /\ shown = [c \in Clients |-> <<>>]
    /\ user = [c \in Clients |-> NoIdentity]
    /\ session = [c \in Clients |-> TRUE]
    /\ ops = 0
    /\ lastAssign = [k \in SlotKeys |-> NoDoctor]
    /\ lastWrite = [k \in SlotKeys |-> NoWrite]
    /\ roomsSel = [c \in Clients |-> NoFloor]
    /\ roomsFresh = [c \in Clients |-> FALSE]
    /\ failed = FALSE
    /\ done = [c \in Clients |-> NoDone]
    /\ OtherPagesClosed
    /\ channels = [c \in Clients |-> EmptyBag]
    /\ storedFloor = [c \in Clients |-> NoStored]
    /\ reloaded = [c \in Clients |-> FALSE]

NextAuth ==
    \/ \E r \in net : StoreRead(r)
    \/ \E r \in net : TransportError(r)
    \/ \E c \in Clients : login(c)
    \/ \E c \in Clients : refreshProfile(c)
    \/ \E r \in net : RecvFetchProfile(r)
    \/ \E r \in net : StoreUpdateAdmin(r)
    \/ \E r \in net : RecvPromote(r)
    \/ \E c \in Clients, st \in {"online", "offline"} : updateStatus(c, st)
    \/ \E c \in Clients : logout(c)
    \/ \E r \in net : StoreUpdateStatus(r)
    \/ \E r \in net : RecvUpdateStatus(r)

SpecAuth == InitAuth /\ [][NextAuth]_vars

\* ------------------------------------------ the caches of two pages ----

\* c1, an administrator, has Users loaded and c2, a receptionist, has DailyMap loaded on
\* the day of an allocation of D1
InitCache ==
    /\ tblRooms = {Room1}
    /\ tblAllocations = {Alloc1}
    /\ tblProfiles = {Admin(Doctor("D1", DefaultFloor)), Doctor("D2", DefaultFloor),
                       Reception("U2")}
    /\ nextRoomId = 2
    /\ selectedFloor = [c \in Clients |-> DefaultFloor]
    /\ page = [c \in Clients |-> IF c = "c1" THEN "Users" ELSE "DailyMap"]
    /\ net = {}
    /\ notif = [c \in Clients |-> {}]
    /\ currentDate = [c \in Clients |-> 1]
    /\ rooms = [c \in Clients |-> IF c = "c2" THEN SelectRooms(tblRooms, DefaultFloor)
                                   ELSE <<>>]
    /\ allocations = [c \in Clients |-> IF c = "c2" THEN tblAllocations ELSE {}]
    /\ doctors = [c \in Clients |-> IF c = "c2"
                                     THEN {MapDoctor(p) : p \in SelectDoctors(tblProfiles)}
                                     ELSE {}]
    /\ activeTab = [c \in Clients |-> "map"]
    /\ selectedSlot = [c \in Clients |-> NoSlot]
    /\ showAllocationModal = [c \in Clients |-> FALSE]
    /\ editingRoomId = [c \in Clients |-> 0]
    /\ shown = [c \in Clients |-> <<>>]
    /\ user = [c \in Clients |->
                 [id |-> AdminId(c), role |-> IF c = "c1" THEN "doctor" ELSE "reception",
                  isAdmin |-> c = "c1", status |-> ""]]
    /\ session = [c \in Clients |-> TRUE]
    /\ ops = 0
    /\ lastAssign = [k \in SlotKeys |-> IF k = KeyOf(Alloc1) THEN "D1" ELSE NoDoctor]
    /\ lastWrite = [k \in SlotKeys |-> IF k = KeyOf(Alloc1)
                                       THEN [by |-> "c2", doc |-> "D1"] ELSE NoWrite]
    /\ roomsSel = [c \in Clients |-> IF c = "c2" THEN DefaultFloor ELSE NoFloor]
    /\ roomsFresh = [c \in Clients |-> c = "c2"]
    /\ failed = FALSE
    /\ done = [c \in Clients |-> NoDone]
    /\ dashRooms = [c \in Clients |-> <<>>]
    /\ dashAllocations = [c \in Clients |-> {}]
    /\ users = [c \in Clients |-> IF c = "c1" THEN {MapUser(p) : p \in tblProfiles}
                                   ELSE {}]
    /\ isModalOpen = [c \in Clients |-> FALSE]
    /\ editingUser = [c \in Clients |-> NoUser]
    /\ formData = [c \in Clients |-> NoForm]
    /\ professionals = [c \in Clients |-> {}]
    /\ channels = [c \in Clients |-> SetToBag(ChannelsOf(page[c], selectedFloor[c]))]
    /\ storedFloor = [c \in Clients |-> NoStored]
    /\ reloaded = [c \in Clients |-> FALSE]

NextCache ==
    \/ \E r \in net : StoreRead(r)
    \/ \E r \in net : RecvFetchRooms(r)
    \/ \E r \in net : RecvFetchDoctors(r)
    \/ \E r \in net : RecvFetchAllocations(r)
    \/ \E r \in net : RecvFetchUsers(r)
    \/ \E c \in Clients, tbl \in Tables : Notification(c, tbl)
    \/ \E c \in Clients : ProfilesNotification(c)
    \/ \E c \in Clients, id \in RoomIds, sh \in Shifts : ClickSlot(c, id, sh)
    \/ \E c \in Clients, d \in DoctorIds : handleAssignDoctor(c, d)
    \/ \E c \in Clients : handleClearSlot(c)
    \/ \E r \in net : RecvSlotWrite(r)
    \/ \E r \in net : StoreUpsert(r)
    \/ \E r \in net : StoreDeleteAllocation(r)
    \/ \E c \in Clients, u \in DoctorIds \cup {"U2"}, b \in BOOLEAN :
           handleDeleteUser(c, u, b)
    \/ \E r \in net : StoreDeleteProfile(r)
    \/ \E r \in net : RecvDeleteProfile(r)
    \/ \E c \in Clients, f \in FLOOR_OPTIONS : setSelectedFloor(c, f)

SpecCache == InitCache /\ [][NextCache]_vars

\* ------------------------------------- every page beside another ----

\* two administrators of the reception: c1 has DailyMap or Users loaded, c2 Dashboard
\* or Professionals
InitSync ==
    /\ tblRooms = {Room1}
    /\ tblAllocations = {Alloc1}
    /\ tblProfiles = {Doctor(d, DefaultFloor) : d \in DoctorIds}
                       \cup {Admin(Reception(UserId(c))) : c \in Clients}
    /\ nextRoomId = 2
    /\ selectedFloor = [c \in Clients |-> DefaultFloor]
    /\ page \in {[c \in Clients |-> IF c = "c1" THEN p1 ELSE p2] :
                    p1 \in {"DailyMap", "Users"}, p2 \in {"Dashboard", "Professionals"}}
    /\ net = {}
    /\ notif = [c \in Clients |-> {}]
    /\ currentDate = [c \in Clients |-> 1]
    /\ rooms = [c \in Clients |-> IF page[c] = "DailyMap"
                                   THEN SelectRooms(tblRooms, DefaultFloor) ELSE <<>>]
    /\ allocations = [c \in Clients |-> IF page[c] = "DailyMap" THEN tblAllocations
                                         ELSE {}]
    /\ doctors = [c \in Clients |-> IF page[c] = "DailyMap"
                                     THEN {MapDoctor(p) : p \in SelectDoctors(tblProfiles)}
                                     ELSE {}]
    /\ activeTab = [c \in Clients |-> "map"]
    /\ selectedSlot = [c \in Clients |-> NoSlot]
    /\ showAllocationModal = [c \in Clients |-> FALSE]
    /\ editingRoomId = [c \in Clients |-> 0]
    /\ shown = [c \in Clients |-> <<>>]
    /\ user = [c \in Clients |-> [id |-> UserId(c), role |-> "reception", isAdmin |-> TRUE,
                                  status |-> ""]]
    /\ session = [c \in Clients |-> TRUE]
    /\ ops = 0
    /\ lastAssign = [k \in SlotKeys |-> IF k = KeyOf(Alloc1) THEN "D1" ELSE NoDoctor]
    /\ lastWrite = [k \in SlotKeys |->
                       IF k = KeyOf(Alloc1) THEN [by |-> "c2", doc |-> "D1"] ELSE NoWrite]
    /\ roomsSel = [c \in Clients |-> IF page[c] = "DailyMap" THEN DefaultFloor ELSE NoFloor]
    /\ roomsFresh = [c \in Clients |-> page[c] = "DailyMap"]
    /\ failed = FALSE
    /\ done = [c \in Clients |-> NoDone]
    /\ dashRooms = [c \in Clients |-> IF page[c] = "Dashboard"
                                       THEN SelectRooms(tblRooms, DefaultFloor) ELSE <<>>]
    /\ dashAllocations = [c \in Clients |-> IF page[c] = "Dashboard" THEN tblAllocations
                                             ELSE {}]
    /\ users = [c \in Clients |-> IF page[c] = "Users"
                                   THEN {MapUser(p) : p \in tblProfiles} ELSE {}]
    /\ isModalOpen = [c \in Clients |-> FALSE]
    /\ editingUser = [c \in Clients |-> NoUser]
    /\ formData = [c \in Clients |-> NoForm]
    /\ professionals = [c \in Clients |->
                           IF page[c] = "Professionals"
                           THEN {MapProfessional(p) : p \in SelectDoctors(tblProfiles)}
                           ELSE {}]
    /\ channels = [c \in Clients |-> SetToBag(ChannelsOf(page[c], selectedFloor[c]))]
    /\ storedFloor = [c \in Clients |-> NoStored]
    /\ reloaded = [c \in Clients |-> FALSE]

\* the fetches, the realtime callbacks that re-run them, and the writes whose change
\* events reach the other page: rooms and allocations from DailyMap, profiles from
\* Users and Professionals
NextSync ==
    \/ \E r \in net : StoreRead(r)
    \/ \E r \in net : RecvFetchRooms(r)
    \/ \E r \in net : RecvFetchDoctors(r)
    \/ \E r \in net : RecvFetchAllocations(r)
    \/ \E r \in net : RecvDashRooms(r)
    \/ \E r \in net : RecvDashAllocs(r)
    \/ \E r \in net : RecvFetchUsers(r)
    \/ \E r \in net : RecvFetchProfessionals(r)
    \/ \E c \in Clients, tbl \in Tables : Notification(c, tbl)
    \/ \E c \in Clients, tbl \in Tables : DashNotification(c, tbl)
    \/ \E c \in Clients : ProfilesNotification(c)
    \/ \E c \in Clients, tab \in {"map", "rooms"} : setActiveTab(c, tab)
    \/ \E c \in Clients, id \in RoomIds : ClickEditRoom(c, id)
    \/ \E c \in Clients, name \in RoomNames : handleSaveRoom(c, name)
    \/ \E r \in net : StoreInsertRoom(r)
    \/ \E r \in net : StoreUpdateRoom(r)
    \/ \E r \in net : RecvSaveRoom(r)
    \/ \E c \in Clients, id \in RoomIds, sh \in Shifts : ClickSlot(c, id, sh)
    \/ \E c \in Clients, d \in DoctorIds : handleAssignDoctor(c, d)
    \/ \E r \in net : StoreUpsert(r)
    \/ \E r \in net : RecvSlotWrite(r)
    \/ \E c \in Clients, u \in DoctorIds \cup {"U2"} : toggleAdmin(c, u)
    \/ \E r \in net : StoreUpdateAdmin(r)
    \/ \E r \in net : RecvToggleAdmin(r)
    \/ \E c \in Clients, d \in DoctorIds, b \in BOOLEAN : handleDelete(c, d, b)
    \/ \E r \in net : StoreDeleteProfile(r)
    \/ \E r \in net : RecvDeleteProfile(r)

SpecSync == InitSync /\ [][NextSync]_vars

\* ------------------------------------------- a sector after deletions ----

\* two DailyMap views of a sector in which rooms of order 0, 1 and 2 were created and
\* the first two deleted since: its one room has order 2; the second doctor works in
\* the other sector
InitRooms ==
    /\ tblRooms = {[Room1 EXCEPT !.order = 2]}
    /\ tblAllocations \in {{}, {Alloc1}}
    /\ tblProfiles = {Doctor("D1", DefaultFloor),
                      Doctor("D2", "CDU - CENTRO DE DIAGNOSTICO UNIMED")}
                       \cup {Reception(UserId(c)) : c \in Clients}
    /\ nextRoomId = 2
    /\ selectedFloor = [c \in Clients |-> DefaultFloor]
    /\ page = [c \in Clients |-> "DailyMap"]
    /\ net = {}
    /\ notif = [c \in Clients |-> {}]
    /\ currentDate = [c \in Clients |-> 1]
    /\ rooms = [c \in Clients |-> SelectRooms(tblRooms, DefaultFloor)]
    /\ allocations = [c \in Clients |-> tblAllocations]
    /\ doctors = [c \in Clients |-> {MapDoctor(p) : p \in SelectDoctors(tblProfiles)}]
    /\ activeTab = [c \in Clients |-> "map"]
    /\ selectedSlot = [c \in Clients |-> NoSlot]
    /\ showAllocationModal = [c \in Clients |-> FALSE]
    /\ editingRoomId = [c \in Clients |-> 0]
    /\ shown = [c \in Clients |-> <<>>]
    /\ user = [c \in Clients |-> [id |-> UserId(c), role |-> "reception", isAdmin |-> FALSE,
                                  status |-> ""]]
    /\ session = [c \in Clients |-> TRUE]
    /\ ops = 0
    /\ lastAssign = [k \in SlotKeys |->
                        IF \E a \in tblAllocations : KeyOf(a) = k THEN "D1" ELSE NoDoctor]
    /\ lastWrite = [k \in SlotKeys |->
                       IF \E a \in tblAllocations : KeyOf(a) = k
                       THEN [by |-> "c2", doc |-> "D1"] ELSE NoWrite]
    /\ roomsSel = [c \in Clients |-> DefaultFloor]
    /\ roomsFresh = [c \in Clients |-> TRUE]
    /\ failed = FALSE
    /\ done = [c \in Clients |-> NoDone]
    /\ OtherPagesClosed
    /\ channels = [c \in Clients |-> SetToBag(ChannelsOf(page[c], selectedFloor[c]))]
    /\ storedFloor = [c \in Clients |-> NoStored]
    /\ reloaded = [c \in Clients |-> FALSE]

SpecRooms == InitRooms /\ [][Next]_vars

\* ================================================== properties ====

RowsOf(k) == {a \in tblAllocations : KeyOf(a) = k}

\* C1: for every (room_id, date, shift) the store holds at most one allocation row, and
\* the doctor of that row is the doctor of the assign that committed last on the key
C1_UpsertUnique ==
    \A k \in SlotKeys :
        /\ Cardinality(RowsOf(k)) <= 1
        /\ \A a \in RowsOf(k) : a.doctor_id = lastAssign[k]

\* two assigns of different doctors to one slot were in flight together and both have
\* committed; the slot has its row
C1_TwoAssignsCommitted ==
    \E r1, r2 \in net :
        /\ r1.kind = "upsert" /\ r2.kind = "upsert" /\ r1.st = "ok" /\ r2.st = "ok"
        /\ r1.doc # r2.doc
        /\ <<r1.room, r1.date, r1.shift>> = <<r2.room, r2.date, r2.shift>>
        /\ RowsOf(<<r1.room, r1.date, r1.shift>>) # {}

\* C5: a clear whose key has no row in the store is answered without an error and
\* leaves the allocations of the store as they were
C5_ClearAbsentKey ==
    [][\A r \in net :
          (/\ r.kind = "deleteAlloc" /\ r.st = "sent"
           /\ RowsOf(<<r.room, r.date, r.shift>>) = {}
           /\ StoreDeleteAllocation(r))
          => (tblAllocations' = tblAllocations /\ [r EXCEPT !.st = "ok"] \in net')]_vars

\* a clear has been answered on a key that never held a row
C5_ClearedAbsentKey ==
    \E r \in net :
        /\ r.kind = "deleteAlloc" /\ r.st = "ok"
        /\ lastAssign[<<r.room, r.date, r.shift>>] = NoDoctor

\* C2: the rooms a view caches were fetched for the sector that was selected when the
\* fetch was issued, so a room created under one sector is never in a collection
\* fetched while another sector is selected
C2_RoomsOfSelectedSector ==
    \A c \in Clients : \A i \in 1..Len(rooms[c]) : rooms[c][i].sector = roomsSel[c]

\* no request is in flight and no change event is waiting for its callback
Quiescent == net = {} /\ \A c \in Clients : notif[c] = {}

\* C3: once a write has committed, its change events have fired and every fetch has
\* completed without an error, two views of one scope (sector and date) cache the same
\* rooms and allocations, which are the store's rooms of the sector and the store's
\* allocations of the date and these rooms
C3_ViewsConverge ==
    (Quiescent /\ ~failed /\ \E k \in SlotKeys : lastWrite[k].by = "c1")
    => \A c, d \in Clients :
          (/\ c # d /\ page[c] = "DailyMap" /\ page[d] = "DailyMap"
           /\ selectedFloor[c] = selectedFloor[d] /\ currentDate[c] = currentDate[d])
          => /\ rooms[c] = SelectRooms(tblRooms, selectedFloor[c])
             /\ rooms[d] = rooms[c]
             /\ allocations[c] = SelectAllocations(tblAllocations,
                                                   formatDateKey(currentDate[c]),
                                                   RoomIdsOf(rooms[c]))
             /\ allocations[d] = allocations[c]

\* C6: once a view's assign or clear has completed and is still the last write of its
\* key, the lookup of the room and shift on that view returns the assigned doctor,
\* or nothing after a clear
C6_ReadYourWrites ==
    \A c \in Clients :
        LET d == done[c]
            found == getAllocation(c, d.room, d.shift)
        IN (/\ d.kind # "none" /\ ~failed
            /\ lastWrite[<<d.room, d.date, d.shift>>] = [by |-> c, doc |-> d.doc]
            /\ d.date = formatDateKey(currentDate[c])
            /\ d.room \in RoomIdsOf(rooms[c]))
           => IF d.kind = "assign"
              THEN found # {} /\ \A a \in found : a.doctor_id = d.doc
              ELSE found = {}

\* C7: every allocation the lookup of a view can return is of the date in view
C7_LookupCurrentDate ==
    \A c \in Clients : \A room \in RoomIds : \A shift \in Shifts :
        \A a \in getAllocation(c, room, shift) : a.date = formatDateKey(currentDate[c])

\* C8: once the rooms fetch issued for the selected sector has completed, the cached
\* rooms are rooms of that sector for as long as it stays selected
C8_SectorSwitchAtomic ==
    \A c \in Clients :
        roomsFresh[c] => \A i \in 1..Len(rooms[c]) : rooms[c][i].sector = selectedFloor[c]

\* C10: when a view consumes the failed answer of one of its fetches, a message is
\* shown to its user
C10_FetchFailureShown ==
    [][\A r \in net :
          (r.kind \in Fetches /\ r.st = "error" /\ r \notin net')
          => Len(shown'[r.c]) > Len(shown[r.c])]_vars

\* C4: no remote write issued by an actor deletes the actor's own profile or takes
\* the administrator flag from it
C4_NoSelfDemoteOrDelete ==
    \A r \in net :
        r.target = r.by =>
            /\ r.kind # "deleteProfile"
            /\ r.kind \in {"updateAdmin", "updateProfile"} => r.admin

\* C9: when a view consumes the failed answer of one of its fetches, every collection
\* it caches is what it was
C9_FailedFetchKeepsCache ==
    [][\A r \in net :
          (r.kind \in Fetches /\ r.st = "error" /\ r \notin net')
          => /\ rooms'[r.c] = rooms[r.c]
             /\ allocations'[r.c] = allocations[r.c]
             /\ doctors'[r.c] = doctors[r.c]
             /\ users'[r.c] = users[r.c]
             /\ professionals'[r.c] = professionals[r.c]
             /\ dashRooms'[r.c] = dashRooms[r.c]
             /\ dashAllocations'[r.c] = dashAllocations[r.c]]_vars

\* the active subscriptions of a client on a table
RECURSIVE SumCopies(_, _)
SumCopies(S, bag) ==
    IF S = {} THEN 0
    ELSE LET ch == CHOOSE x \in S : TRUE
         IN CopiesIn(ch, bag) + SumCopies(S \ {ch}, bag)
Subscriptions(c, tbl) ==
    SumCopies({ch \in BagToSet(channels[c]) : ch.table = tbl}, channels[c])

\* the tables the subscription effect of a page watches
WatchedTables(pg) ==
    CASE pg = "DailyMap" -> {"rooms", "room_allocations", "profiles"}
      [] pg = "Dashboard" -> {"rooms", "room_allocations"}
      [] pg \in {"Users", "Professionals"} -> {"profiles"}
      [] OTHER -> {}

\* C11: a mounted view holds exactly one active subscription on each table it watches
\* and none on any other, whatever sector switches, date changes and room-list changes
\* came before; a view that is not mounted holds none
C11_NoLeakedChannels ==
    \A c \in Clients : \A tbl \in Tables :
        Subscriptions(c, tbl) = IF tbl \in WatchedTables(page[c]) THEN 1 ELSE 0

\* three scope changes have happened: one view switched its sector and changed its
\* date, the other was unmounted
C11_ScopeChangedAndUnmounted ==
    /\ page["c1"] = "DailyMap" /\ selectedFloor["c1"] # DefaultFloor
    /\ currentDate["c1"] = 2 /\ page["c2"] = NoPage

\* C12: the persisted sector, once one has been persisted, is the sector in memory,
\* and a reload starts from the sector in memory now, which is the label of the last
\* setSelectedFloor call, or the first sector when none was ever persisted
C12_SectorPersisted ==
    \A c \in Clients :
        /\ storedFloor[c] # NoStored => storedFloor[c] = selectedFloor[c]
        /\ InitialFloor(storedFloor[c]) = selectedFloor[c]
        /\ storedFloor[c] = NoStored => selectedFloor[c] = DefaultFloor

\* a view selected another sector than the first one and was reloaded: it is on
\* the sector it selected
C12_ReloadedOnSelectedSector ==
    \E c \in Clients : reloaded[c] /\ selectedFloor[c] # DefaultFloor

\* the segment of a composite field the specification names: the i-th part of the
\* split, trimmed, and nothing when the field has no such part
Segment(s, i) == IF Len(SplitPipe(s)) >= i THEN Trim(SplitPipe(s)[i]) ELSE <<>>

\* the specialty and the sector the cached doctors of a view give the profile
SplitOf(cache, id) == {<<d.specialty, d.sector>> : d \in {x \in cache : x.id = id}}

\* C13: every mapped doctor has the first segment of the profile's composite field as
\* its specialty and the second as its sector, and the daily map, the tasks page and
\* the professionals page give one profile the same specialty and sector
C13_SplitIdentical ==
    \A p \in tblProfiles :
        LET expected == {<<Segment(p.specialty, 1), Segment(p.specialty, 2)>>}
            mine == SplitOf(doctors["c1"], p.id)
            theirs == SplitOf(professionals["c2"], p.id)
        IN /\ mine # {} => mine = expected
           /\ theirs # {} => theirs = expected
           /\ (mine # {} /\ theirs # {}) => mine = theirs

\* the step issues no remote call and changes neither the store nor a cached collection
NothingSubmitted ==
    /\ net' = net
    /\ UNCHANGED <<tblRooms, tblAllocations, tblProfiles>>
    /\ UNCHANGED <<rooms, allocations, doctors, users, professionals>>

\* C14: a save whose required field is missing (the room name in handleSaveRoom, the
\* name or the sector / specialty in handleSaveUser, the name in
\* Professionals.handleSave) issues no remote call and changes neither the store nor
\* a cached collection
C14_MissingFieldNotSubmitted ==
    [][\A c \in Clients :
          /\ handleSaveRoom(c, "") => NothingSubmitted
          /\ (/\ page[c] = "Users"
              /\ formData[c].name = "" \/ formData[c].roleDisplay = <<>>
              /\ handleSaveUser(c)) => NothingSubmitted
          /\ (/\ page[c] = "Professionals" /\ formData[c].name = ""
              /\ handleSave(c)) => NothingSubmitted]_vars

\* a user form without its sector / specialty, or a professional form without its
\* name, has been saved and refused: the alert is up, the modal still open
C14_FormRefused ==
    \E c \in Clients :
        /\ isModalOpen[c] /\ net = {}
        /\ \/ page[c] = "Users" /\ formData[c].roleDisplay = <<>>
              /\ formData[c].name # ""
              /\ shown[c] = <<"Nome e Setor/Especialidade sao obrigatorios.">>
           \/ page[c] = "Professionals" /\ formData[c].name = ""
              /\ shown[c] = <<"Nome e obrigatorio.">>

\* C15: toggleAdmin and handleDeleteUser called with the actor's own id issue no
\* remote call and leave the profiles of the store, the cached users and the actor's
\* identity, its administrator flag included, as they were
C15_SelfShortCircuit ==
    [][\A c \in Clients :
          (\/ toggleAdmin(c, user[c].id)
           \/ \E b \in BOOLEAN : handleDeleteUser(c, user[c].id, b))
          => /\ net' = net
             /\ tblProfiles' = tblProfiles
             /\ users' = users
             /\ user' = user]_vars

\* an administrator has tried to toggle and to delete its own user: both alerts are up
\* and its profile is in the store, an administrator's
C15_SelfRefusedTwice ==
    \E c \in Clients :
        /\ "Voce nao pode alterar seu proprio status de administrador" \in Range(shown[c])
        /\ "Voce nao pode excluir seu proprio usuario." \in Range(shown[c])
        /\ \E p \in tblProfiles : p.id = user[c].id /\ p.is_admin

\* C16: when a handler consumes the failed answer of its remote write, a failure
\* message is shown to its user
C16_FailedWriteShown ==
    [][\A r \in net :
          (r.kind \in Writes /\ r.st = "error" /\ r \notin net')
          => Len(shown'[r.c]) > Len(shown[r.c])]_vars

\* C17: no room insert, update or delete is issued by a view whose identity has the
\* role doctor
C17_DoctorIssuesNoRoomWrite ==
    \A r \in net :
        r.kind \in {"insertRoom", "updateRoom", "deleteRoom"} => user[r.c].role # "doctor"

\* the profile of the store is an administrator's
ActorIsAdmin(id) == \E p \in tblProfiles : p.id = id /\ p.is_admin

\* the step changes the profiles in nothing but the status of the profile `id`
OwnStatusOnly(id) ==
    /\ {p.id : p \in tblProfiles'} = {p.id : p \in tblProfiles}
    /\ \A p \in tblProfiles : \A q \in tblProfiles' :
          p.id = q.id => IF p.id = id THEN [p EXCEPT !.status = q.status] = q ELSE p = q

\* C18: every step that changes the profiles commits the write of an actor who is an
\* administrator, or changes nothing but the status of the actor's own profile
C18_ProfilesMutatedByOwnerOrAdmin ==
    [][tblProfiles' # tblProfiles =>
          \E r \in net :
              /\ r.kind \in Writes /\ r.st = "sent" /\ r \notin net'
              /\ ActorIsAdmin(r.by) \/ OwnStatusOnly(r.by)]_vars

\* C19: each (room, date, shift) slot is EMPTY (no row) or ASSIGNED (one row). A slot
\* that was never assigned starts EMPTY; an assign that the store commits leaves its
\* slot ASSIGNED to the doctor of the assign whatever the slot was before (EMPTY, also
\* after a clear, or ASSIGNED); a clear that the store commits leaves its slot EMPTY;
\* either leaves the rows of every other slot as they were; an assign the store rejects
\* and the client-side steps of handleAssignDoctor / handleClearSlot change no slot
C19_SlotStateMachine ==
    /\ \A k \in SlotKeys : lastAssign[k] = NoDoctor => RowsOf(k) = {}
    /\ [][/\ \A r \in net :
               LET k == <<r.room, r.date, r.shift>>
                   listed == \E x \in tblRooms : x.id = r.room
               IN
               /\ (r.kind = "upsert" /\ r.st = "sent" /\ StoreUpsert(r) /\ listed)
                  => /\ Cardinality(RowsOf(k)') = 1
                     /\ \A a \in RowsOf(k)' : a.doctor_id = r.doc
                     /\ \A j \in SlotKeys \ {k} : RowsOf(j)' = RowsOf(j)
               /\ (r.kind = "upsert" /\ r.st = "sent" /\ StoreUpsert(r) /\ ~listed)
                  => tblAllocations' = tblAllocations
               /\ (r.kind = "deleteAlloc" /\ r.st = "sent" /\ StoreDeleteAllocation(r))
                  => /\ RowsOf(k)' = {}
                     /\ \A j \in SlotKeys \ {k} : RowsOf(j)' = RowsOf(j)
               /\ RecvSlotWrite(r) => tblAllocations' = tblAllocations
          /\ \A c \in Clients :
               (handleClearSlot(c) \/ \E d \in DoctorIds : handleAssignDoctor(c, d))
               => tblAllocations' = tblAllocations]_vars

\* ASSIGNED -> EMPTY -> ASSIGNED: one view cleared a slot that held the row of D1 and,
\* the modal still open, assigned D2 to it; both writes have committed in that order and
\* the slot holds the row of D2
C19_AssignedAgainAfterClear ==
    \E r1, r2 \in net :
        /\ r1.kind = "deleteAlloc" /\ r1.st = "ok" /\ r2.kind = "upsert" /\ r2.st = "ok"
        /\ r1.c = r2.c /\ r2.doc = "D2"
        /\ KeyOf(Alloc1) = <<r1.room, r1.date, r1.shift>>
        /\ KeyOf(Alloc1) = <<r2.room, r2.date, r2.shift>>
        /\ \E a \in tblAllocations : RowsOf(KeyOf(Alloc1)) = {a} /\ a.doctor_id = "D2"
        /\ allocations[r1.c] = {Alloc1}

\* C20: in every step in which fetchRooms, fetchDoctors, fetchAllocations or fetchUsers
\* resumes on a successful response, the view's cached collection is afterwards exactly
\* the (mapped) rows of that response, whatever the cache held before
C20_CacheReplacedWholesale ==
    [][\A r \in net :
          r.st = "ok" =>
            /\ RecvFetchRooms(r) => rooms'[r.c] = r.rdata
            /\ RecvFetchDoctors(r) => doctors'[r.c] = {MapDoctor(p) : p \in r.pdata}
            /\ RecvFetchAllocations(r) => allocations'[r.c] = r.adata
            /\ RecvFetchUsers(r) => users'[r.c] = {MapUser(p) : p \in r.pdata}]_vars

\* responses fetched after D2's profile was deleted and the slot of D1 was cleared have
\* been applied: the users of c1 and the doctors of c2, which held D2, hold D1 and no
\* D2, and the allocations of c2, which held the row of D1, are empty
C20_SmallerResultsApplied ==
    /\ net = {}
    /\ tblAllocations = {} /\ allocations["c2"] = {}
    /\ lastWrite[KeyOf(Alloc1)] = [by |-> "c2", doc |-> NoDoctor]
    /\ {u.id : u \in users["c1"]} = {"D1", "U2"}
    /\ {d.id : d \in doctors["c2"]} = {"D1"}

\* C21: a re-fetch is read-only and idempotent. A step in which a realtime callback
\* runs, or in which a fetch is processed by the store or resumes in its view, leaves
\* the store as it was and issues nothing but fetches; and when the response that
\* resumes is what the store still answers to the same query and the view already
\* caches the result of that query, the caches of the view stay as they are
C21_RefetchReadOnlyIdempotent ==
    [][/\ \A c \in Clients :
             (\/ \E tbl \in Tables : Notification(c, tbl) \/ DashNotification(c, tbl)
              \/ ProfilesNotification(c))
             => /\ storeVars' = storeVars
                /\ \A q \in net' \ net : q.kind \in Fetches
       /\ \A r \in net :
             (r.kind \in Fetches /\ r \notin net')
             => /\ storeVars' = storeVars
                /\ \A q \in net' \ net : q.kind \in Fetches
                /\ (/\ r.st = "ok"
                    /\ CASE r.kind = "fetchRooms" ->
                              /\ r.rdata = SelectRooms(tblRooms, r.floor)
                              /\ rooms[r.c] = r.rdata
                         [] r.kind = "fetchAllocations" ->
                              /\ r.adata = SelectAllocations(tblAllocations, r.date, r.rids)
                              /\ allocations[r.c] = r.adata
                         [] r.kind = "fetchDoctors" ->
                              /\ r.pdata = SelectDoctors(tblProfiles)
                              /\ doctors[r.c] = {MapDoctor(p) : p \in r.pdata}
                         [] r.kind = "fetchUsers" ->
                              /\ r.pdata = tblProfiles
                              /\ users[r.c] = {MapUser(p) : p \in r.pdata}
                         [] r.kind = "fetchProfessionals" ->
                              /\ r.pdata = SelectDoctors(tblProfiles)
                              /\ professionals[r.c] = {MapProfessional(p) : p \in r.pdata}
                         [] r.kind \in {"dashRooms", "dashAllocs"} ->
                              /\ r.rdata = SelectRooms(tblRooms, r.floor)
                              /\ dashRooms[r.c] = r.rdata
                              /\ dashAllocations[r.c] =
                                   SelectAllocations(tblAllocations, r.date,
                                                     RoomIdsOf(r.rdata))
                              /\ r.kind = "dashAllocs" => r.adata = dashAllocations[r.c]
                         [] OTHER -> FALSE)
                   => /\ rooms'[r.c] = rooms[r.c]
                      /\ allocations'[r.c] = allocations[r.c]
                      /\ doctors'[r.c] = doctors[r.c]
                      /\ users'[r.c] = users[r.c]
                      /\ professionals'[r.c] = professionals[r.c]
                      /\ dashRooms'[r.c] = dashRooms[r.c]
                      /\ dashAllocations'[r.c] = dashAllocations[r.c]]_vars

\* a room was saved without a change, so the store is as it was at the start while a
\* change event went out; the Dashboard beside it has taken the event, its re-fetch has
\* been applied, and it caches what a single fetch of this store produces
C21_RedundantEventRefetched ==
    /\ \E r \in net : r.kind = "updateRoom" /\ r.st = "ok" /\ r.c = "c1"
    /\ tblRooms = {Room1} /\ tblAllocations = {Alloc1}
    /\ page["c2"] = "Dashboard" /\ notif["c2"] = {}
    /\ \A q \in net : q.c # "c2"
    /\ dashRooms["c2"] = SelectRooms(tblRooms, selectedFloor["c2"])
    /\ dashAllocations["c2"] = {Alloc1}

\* C22: the rooms a DailyMap view caches and the rooms a Dashboard view caches are in
\* ascending order of their `order` field
C22_RoomsSortedByOrder ==
    \A c \in Clients :
        /\ \A i, j \in 1..Len(rooms[c]) : i < j => rooms[c][i].order <= rooms[c][j].order
        /\ \A i, j \in 1..Len(dashRooms[c]) :
               i < j => dashRooms[c][i].order <= dashRooms[c][j].order

\* a second room was created in the sector, and both the DailyMap view and the
\* Dashboard view cache the two rooms
C22_TwoRoomsCached ==
    /\ Len(rooms["c1"]) = 2 /\ Len(dashRooms["c2"]) = 2
    /\ rooms["c1"][1].order # rooms["c1"][2].order

C24_CompositeRoundTrip ==
    [][\A c \in Clients :
          (handleSave(c) /\ ~ProfFormMissing(formData[c]))
          => \A r \in net' \ net :
               LET back == MapProfessional(
                               [id |-> r.target, name |-> r.name, role |-> r.role,
                                specialty |-> r.roleDisplay, is_admin |-> FALSE,
                                status |-> r.status])
               IN /\ back.specialty = formData[c].specialty
                  /\ back.sector = formData[c].sector
                  /\ \A p \in tblProfiles, prof \in professionals[c] :
                        (/\ p.id = editingUser[c] /\ prof = MapProfessional(p)
                         /\ formData[c].specialty = prof.specialty
                         /\ formData[c].sector = prof.sector)
                        => r.roleDisplay = p.specialty]_vars

\* C25: the response of an older fetch never overwrites the result of a newer one.
\* For the rooms of DailyMap: a response of a fetch that the sector effect or a realtime
\* callback issued for a sector other than the selected one was issued before the last
\* sector switch; when no fetch has failed and the fetch that the last switch issued for
\* the selected sector is no longer in flight, its result has been applied, and the
\* older response that resumes now leaves the cached rooms as they are
C25_OlderResponseNeverOverwrites ==
    [][\A r \in net :
          (/\ RecvFetchRooms(r) /\ r.st = "ok" /\ r.cont = "none"
           /\ r.floor # selectedFloor[r.c]
           /\ ~failed /\ roomsFresh[r.c]
           /\ \A q \in net : ~(q.kind = "fetchRooms" /\ q.c = r.c
                                /\ q.floor = selectedFloor[r.c]))
          => rooms'[r.c] = rooms[r.c]]_vars

\* C26: whenever a DailyMap view has no call in flight and no change event waiting,
\* every allocation it caches is of a room it caches; so with no cached room there is
\* no cached allocation
C26_AllocationsOfCachedRooms ==
    \A c \in Clients :
        (/\ page[c] = "DailyMap" /\ notif[c] = {}
         /\ \A r \in net : r.c # c)
        => \A a \in allocations[c] : a.room_id \in RoomIdsOf(rooms[c])

\* C27: when the store commits the insert of handleSaveRoom, the new room is the last of
\* the rooms of its sector in ascending `order`, rooms of equal `order` in the order of
\* their insertion
C27_NewRoomLast ==
    [][\A r \in net :
          (r.kind = "insertRoom" /\ r.st = "sent" /\ StoreInsertRoom(r))
          => LET sorted == SelectRooms(tblRooms', r.floor)
             IN sorted[Len(sorted)].id = nextRoomId]_vars

\* C28: the context exposes no identity without a session: whenever a client's
\* session is absent and no fetchProfile of that client is in flight (neither its
\* select nor its promotion), the client's identity is none; in particular an
\* identity set to none by a completed logout stays none when a fetchProfile that
\* started before the logout resolves afterwards.
C28_NoIdentityWithoutSession ==
    \A c \in Clients :
        (/\ ~session[c]
         /\ \A r \in net : r.c = c => /\ r.kind # "fetchProfile"
                                      /\ r.cont # "fetchProfile")
        => user[c] = NoIdentity

\* C29: when updateStatus(s) returns, whether its remote update succeeded or failed,
\* the status of the identity the client holds equals the status stored for that
\* profile in the remote store (a failed update does not leave the optimistic
\* change in place).
C29_StatusMatchesStore ==
    [][\A r \in net :
          (/\ r.kind = "updateStatus" /\ r.cont = "updateStatus" /\ r.st # "sent"
           /\ RecvUpdateStatus(r)
           /\ user'[r.c].id = r.target)
          => \A p \in tblProfiles' : p.id = r.target => user'[r.c].status = p.status]_vars

\* C30: every allocation handleAssignDoctor writes pairs a room of the sector
\* selected at the time of the write with a doctor whose mapped sector is that same
\* sector: the doctor chosen in the modal has the selected sector, and the room of
\* the selected slot is a room of the selected sector.
C30_AssignWithinSector ==
    [][\A c \in Clients, d \in DoctorIds :
          handleAssignDoctor(c, d)
          => /\ RoomSector(selectedSlot[c].roomId) = selectedFloor[c]
             /\ \A p \in tblProfiles :
                   p.id = d => MapDoctor(p).sector = <<selectedFloor[c]>>]_vars

====
